---- MODULE Spec2Model ----
(***************************************************************************)
(* Vending-machine day cycle: src/src/vending/simulation.py (GameState,    *)
(* simulate_customers, process_pending_orders, handle_tool_call,           *)
(* handle_email, generate_supplier_response) driven by                     *)
(* src/src/vending/server.py (run_simulation_loop).                        *)
(*                                                                         *)
(* Money is kept in integer cents (balance 500.0 is 50000, a unit cost of  *)
(* 0.70 is 70), so every sum of the program is exact here; the program's   *)
(* binary floats can differ from these values by rounding in the last      *)
(* place.  Text is kept as a sequence of tokens: a number, a word that     *)
(* contains a product name, a word that contains an order keyword, or any  *)
(* other word.                                                             *)
(***************************************************************************)
EXTENDS Integers, Sequences, FiniteSets, TLC

VARIABLES
    pc,                 \* position of run_simulation_loop
    day,                \* GameState.day
    balance,            \* GameState.balance, in cents
    stock,              \* GameState.products[p].stock
    price,              \* GameState.products[p].price, in cents
    pending_orders,     \* GameState.pending_orders
    sales_today,        \* GameState.sales_today
    emails,             \* GameState.emails
    agent_notes,        \* GameState.agent_notes
    simulation_running, \* module global of server.py
    other_run,          \* a second run_simulation_loop of the same process
    bankrupt,           \* the "BANKRUPT! Game over." activity was emitted
    calls,              \* tool_use blocks handled in this decision phase
    writes,             \* history: tool calls so far that wrote to the state
    book,               \* history: every order as scheduled, and the days it was delivered on
    last,               \* history: the step just taken
    websocket_clients,  \* module global of server.py: the connected websockets
    conn,               \* per observer: state of its connection and handler
    unread,             \* per observer: events sent to it that it has not read
    got,                \* per observer: number of the last event sent to it
    emitted,            \* events the run has emitted so far today
    bc,                 \* the broadcast in progress
    random_inst,        \* the generator behind the functions of module random
    own_inst            \* history: a generator of the same seed that only this run draws from

vars == <<pc, day, balance, stock, price, pending_orders, sales_today, emails,
          agent_notes, simulation_running, other_run, bankrupt, calls, writes,
          book, last, websocket_clients, conn, unread, got, emitted, bc,
          random_inst, own_inst>>

obsVars == <<websocket_clients, conn, unread, got, emitted, bc>>

\* everything the run's thread writes apart from the observer channel
runVars == <<pc, day, balance, stock, price, pending_orders, sales_today, emails,
             agent_notes, simulation_running, other_run, bankrupt, calls, writes,
             book, last, random_inst, own_inst>>

rngVars == <<random_inst, own_inst>>

\* what a draw of another run leaves alone
runVarsButRng == <<pc, day, balance, stock, price, pending_orders, sales_today, emails,
                   agent_notes, simulation_running, other_run, bankrupt, calls, writes,
                   book, last>>

gameState == <<day, balance, stock, price, pending_orders, sales_today, emails, agent_notes>>

----------------------------------------------------------------------------
(* Bounds of the model *)

\* GameState.max_days of the modelled runs (the program's default is 30)
MaxDays == 4
\* tool_use blocks of one model response
MaxCalls == 2
\* tool calls over one run that write to the state: send_email, take_notes,
\* and set_price of a known product
MaxWrites == 2
\* events a connection holds for an observer that does not read
BufferCap == 1
\* the dashboards that may connect to /ws
Observers == {"o1", "o2"}

----------------------------------------------------------------------------
(* Data of simulation.py *)

ProductOrder == <<"Soda", "Chips", "Candy">>
ProductNames == {"Soda", "Chips", "Candy"}

InitialBalance == 50000
InitialStock == [p \in ProductNames |-> 10]
InitialPrice == [Soda |-> 175, Chips |-> 125, Candy |-> 99]
WholesaleCost == [Soda |-> 70, Chips |-> 45, Candy |-> 30]

SupplierOrder == <<"QuickStock", "VendMart", "BulkBarn">>
SupplierNames == {"QuickStock", "VendMart", "BulkBarn"}

SUPPLIERS ==
    [QuickStock |-> [Soda |-> 70, Chips |-> 45, Candy |-> 30,
                     reliable |-> TRUE, delivery_days |-> 1, personality |-> "professional"],
     VendMart   |-> [Soda |-> 60, Chips |-> 40, Candy |-> 25,
                     reliable |-> FALSE, delivery_days |-> 1, personality |-> "pushy"],
     BulkBarn   |-> [Soda |-> 50, Chips |-> 35, Candy |-> 20,
                     reliable |-> TRUE, delivery_days |-> 3, personality |-> "friendly"]]

base_demand == [Soda |-> 20, Chips |-> 15, Candy |-> 18]

DAILY_FEE == 500

Min(a, b) == IF a <= b THEN a ELSE b


max_days == MaxDays

\* int(x) of a quotient a / b: Python truncates toward zero
TruncDiv(a, b) ==
    LET abs(x) == IF x < 0 THEN -x ELSE x
    IN  IF (a >= 0) = (b > 0) THEN abs(a) \div abs(b) ELSE -(abs(a) \div abs(b))

----------------------------------------------------------------------------
(* Text: str.lower() and the substring tests of handle_email and           *)
(* generate_supplier_response, over the words the model's agent writes     *)

\* str.lower() of a word
Lower(w) ==
    CASE w = "QuickStock" -> "quickstock"
      [] w = "VendMart"   -> "vendmart"
      [] w = "VENDMART"   -> "vendmart"
      [] w = "BulkBarn"   -> "bulkbarn"
      [] w = "Soda"       -> "soda"
      [] w = "CHIPS"      -> "chips"
      [] w = "Order"      -> "order"
      [] w = "Bob"        -> "bob"
      [] OTHER            -> w

\* the product names, order keywords and supplier names (all lower case) that
\* occur as substrings of a lower-case word
Needles(lw) ==
    CASE lw = "soda"       -> {"soda"}
      [] lw = "sodas"      -> {"soda"}
      [] lw = "chips"      -> {"chips"}
      [] lw = "candy"      -> {"candy"}
      [] lw = "order"      -> {"order"}
      [] lw = "need"       -> {"need"}
      [] lw = "quickstock" -> {"quickstock"}
      [] lw = "vendmart"   -> {"vendmart"}
      [] lw = "bulkbarn"   -> {"bulkbarn"}
      [] lw = "sales@bulkbarn.com" -> {"bulkbarn"}
      [] OTHER             -> {}

\* str.title() of the three lower-case product names
Title(p) == CASE p = "soda" -> "Soda" [] p = "chips" -> "Chips" [] p = "candy" -> "Candy"

IsNum(tok) == tok[1] = "num"
IsWordWith(tok, needle) == tok[1] = "word" /\ needle \in Needles(Lower(tok[2]))

OrderKeywords == {"order", "buy", "purchase", "want", "need", "send"}

\* is_order: any keyword occurs in body.lower()
IsOrder(body) ==
    \E i \in 1..Len(body) : \E k \in OrderKeywords : IsWordWith(body[i], k)

\* the quantities dict: for each product the first pattern that matches, at its
\* leftmost match; a product that matches neither pattern gets no key
ParseQuantities(body) ==
    LET before(p) == {i \in 1..(Len(body) - 1) : IsNum(body[i]) /\ IsWordWith(body[i + 1], p)}
        after(p)  == {i \in 1..(Len(body) - 1) : IsWordWith(body[i], p) /\ IsNum(body[i + 1])}
        least(S)  == CHOOSE i \in S : \A j \in S : i <= j
        found     == {p \in {"soda", "chips", "candy"} : before(p) # {} \/ after(p) # {}}
        lowerOf(P) == CHOOSE p \in found : Title(p) = P
    IN  [P \in {Title(p) : p \in found} |->
            IF before(lowerOf(P)) # {}
            THEN body[least(before(lowerOf(P)))][2]
            ELSE body[least(after(lowerOf(P))) + 1][2]]

\* the keys of quantities in insertion order (soda, chips, candy)
RECURSIVE KeysFrom(_, _)
KeysFrom(q, i) ==
    IF i > Len(ProductOrder) THEN <<>>
    ELSE IF ProductOrder[i] \in DOMAIN q
         THEN <<ProductOrder[i]>> \o KeysFrom(q, i + 1)
         ELSE KeysFrom(q, i + 1)

QuantityKeys(q) == KeysFrom(q, 1)

\* handle_email: the first catalog name whose lower case occurs in to.lower();
\* "" stands for None
RECURSIVE ResolveFrom(_, _)
ResolveFrom(to, i) ==
    IF i > Len(SupplierOrder) THEN ""
    ELSE IF Lower(SupplierOrder[i]) \in Needles(Lower(to))
         THEN SupplierOrder[i]
         ELSE ResolveFrom(to, i + 1)

\* the supplier lookup comparing the recipient as written
ResolveSupplier_CaseSensitive(to) == IF to \in SupplierNames THEN to ELSE ""

ResolveSupplier(to) == ResolveFrom(to, 1)

----------------------------------------------------------------------------
(* process_pending_orders *)

\* dict equality of two orders, as list.remove compares them (id is the
\* object's identity, not a key of the dict)
DictEq(a, b) ==
    /\ a.product = b.product
    /\ a.quantity = b.quantity
    /\ a.cost = b.cost
    /\ a.days_remaining = b.days_remaining

\* list.remove(x) that removes nothing
RemoveFirstEqual_Keeps(live, objs, x) == live

\* list.remove(x): drops the first element equal to x. objs[k] is the current
\* value of the k-th object of the copy, live the objects still in the list.
RemoveFirstEqual(live, objs, x) ==
    LET hits == {k \in 1..Len(live) : DictEq(objs[live[k]], x)}
        k0   == CHOOSE k \in hits : \A j \in hits : k <= j
    IN  IF hits = {} THEN live
        ELSE SubSeq(live, 1, k0 - 1) \o SubSeq(live, k0 + 1, Len(live))

\* one pass of the for loop over the copy pending_orders[:], from its i-th order
\* list.remove raises ValueError when no element of the list equals x
RemoveRaises(live, objs, x) == \A k \in 1..Len(live) : ~DictEq(objs[live[k]], x)

RECURSIVE DeliverFrom(_, _, _, _, _)
DeliverFrom(i, objs, live, stk, delivered) ==
    IF i > Len(objs)
    THEN [pending_orders |-> [k \in 1..Len(live) |-> objs[live[k]]],
          stock |-> stk, delivered |-> delivered, raised |-> FALSE]
    ELSE LET dec     == [objs EXCEPT ![i].days_remaining = @ - 1]
             o       == dec[i]
             credit  == [stk EXCEPT ![o.product] = @ + o.quantity]
         IN  IF o.days_remaining <= 0
             THEN IF RemoveRaises(live, dec, o)
                  THEN [pending_orders |-> [k \in 1..Len(live) |-> dec[live[k]]],
                        stock |-> credit, delivered |-> Append(delivered, o),
                        raised |-> TRUE]
                  ELSE DeliverFrom(i + 1, dec, RemoveFirstEqual(live, dec, o),
                                   credit, Append(delivered, o))
             ELSE DeliverFrom(i + 1, dec, live, stk, delivered)

\* process_pending_orders that counts every order down by two days
ProcessPendingOrders_TwoDays(pending, stk) ==
    DeliverFrom(1, [k \in 1..Len(pending) |->
                        [pending[k] EXCEPT !.days_remaining = @ - 1]],
                [k \in 1..Len(pending) |-> k], stk, <<>>)

\* process_pending_orders that credits the stock of no product
ProcessPendingOrders_NoCredit(pending, stk) ==
    [DeliverFrom(1, pending, [k \in 1..Len(pending) |-> k], stk, <<>>)
        EXCEPT !.stock = stk]

\* the for loop run over pending_orders itself, not over a copy: after a removal
\* the next index is one order further
RECURSIVE LoopOverList(_, _, _, _)
LoopOverList(i, pending, stk, delivered) ==
    IF i > Len(pending)
    THEN [pending_orders |-> pending, stock |-> stk, delivered |-> delivered,
          raised |-> FALSE]
    ELSE LET dec == [pending EXCEPT ![i].days_remaining = @ - 1]
             o   == dec[i]
         IN  IF o.days_remaining <= 0
             THEN LoopOverList(i + 1,
                               SubSeq(dec, 1, i - 1) \o SubSeq(dec, i + 1, Len(dec)),
                               [stk EXCEPT ![o.product] = @ + o.quantity],
                               Append(delivered, o))
             ELSE LoopOverList(i + 1, dec, stk, delivered)

\* process_pending_orders without the copy of the list
ProcessPendingOrders_NoCopy(pending, stk) == LoopOverList(1, pending, stk, <<>>)

\* process_pending_orders(state): the new pending_orders and stock, and the
\* returned delivered list
ProcessPendingOrders(pending, stk) ==
    DeliverFrom(1, pending, [k \in 1..Len(pending) |-> k], stk, <<>>)

----------------------------------------------------------------------------
(* simulate_customers *)

\* demand = int(base_demand * (2.0 / (price + 0.5)) * noise), noise in percent
Demand(p, prc, noise) == TruncDiv(2 * base_demand[p] * noise, prc + 50)

\* price_factor divides by price + 0.5
DemandRaises(stk, prc, p) == stk[p] > 0 /\ prc[p] + 50 = 0

\* sold without the cap by the stock
Sold_Uncapped(p, stk, prc, noise) ==
    IF stk[p] <= 0 THEN 0 ELSE Demand(p, prc[p], noise[p])

\* sold = min(demand, product.stock), 0 for a product that is skipped
Sold(p, stk, prc, noise) ==
    IF stk[p] <= 0 THEN 0 ELSE Min(Demand(p, prc[p], noise[p]), stk[p])

RECURSIVE SumOver(_, _)
SumOver(f, S) ==
    IF S = {} THEN 0
    ELSE LET x == CHOOSE y \in S : TRUE IN f[x] + SumOver(f, S \ {x})

\* the products handled before the loop raises: those before the first one whose
\* price_factor cannot be computed
HandledBeforeRaise(stk, prc) ==
    LET bad   == {i \in 1..Len(ProductOrder) : DemandRaises(stk, prc, ProductOrder[i])}
        first == CHOOSE i \in bad : \A j \in bad : i <= j
    IN  {ProductOrder[i] : i \in 1..(first - 1)}

\* random.uniform is called for a product in stock that the loop reaches
DrawsNoise(stk, prc, p) ==
    /\ stk[p] > 0
    /\ \/ \A x \in ProductNames : ~DemandRaises(stk, prc, x)
       \/ p \in HandledBeforeRaise(stk, prc)

\* simulate_customers(state) with the draws of random.uniform given by noise
SimulateCustomers(stk, prc, bal, noise) ==
    LET sold(p) == Sold(p, stk, prc, noise)
    IN  IF \E p \in ProductNames : DemandRaises(stk, prc, p)
        THEN LET done == HandledBeforeRaise(stk, prc)
             IN  [raised |-> TRUE,
                  stock |-> [p \in ProductNames |->
                                IF p \in done THEN stk[p] - sold(p) ELSE stk[p]],
                  balance |-> bal,
                  sales |-> [p \in ProductNames |-> IF p \in done THEN sold(p) ELSE 0]]
        ELSE LET sales   == [p \in ProductNames |-> sold(p)]
                 revenue == SumOver([p \in ProductNames |-> sales[p] * prc[p]],
                                    ProductNames)
             IN  [raised |-> FALSE,
                  stock |-> [p \in ProductNames |-> stk[p] - sales[p]],
                  balance |-> bal + revenue, sales |-> sales]

----------------------------------------------------------------------------
(* generate_supplier_response *)

\* total = sum(quantities[p] * supplier_info[p] for p in quantities)
OrderTotal(supplier, q) ==
    SumOver([p \in DOMAIN q |-> q[p] * SUPPLIERS[supplier][p]], DOMAIN q)

\* the affordability test, comparing against the balance plus the daily fee
Unaffordable_Lenient(total, bal) == total > bal + DAILY_FEE * 10

\* the affordability test
Unaffordable(total, bal) == total > bal

\* delivery_days with the unreliable supplier always one day late
DeliveryDays_Late(supplier, extra) ==
    IF SUPPLIERS[supplier].reliable
    THEN SUPPLIERS[supplier].delivery_days
    ELSE SUPPLIERS[supplier].delivery_days + extra + 1

\* delivery_days; extra is the draw of random.choice([0, 1])
DeliveryDays(supplier, extra) ==
    IF SUPPLIERS[supplier].reliable
    THEN SUPPLIERS[supplier].delivery_days
    ELSE SUPPLIERS[supplier].delivery_days + extra

\* the for loop over quantities.items(): for each key in order, balance -= cost
\* and one order is appended; ids number the orders of a run as scheduled
RECURSIVE ScheduleFrom(_, _, _, _, _, _, _, _)
ScheduleFrom(keys, i, q, supplier, days, bal, pending, nextId) ==
    IF i > Len(keys) THEN [balance |-> bal, pending_orders |-> pending]
    ELSE LET cost == q[keys[i]] * SUPPLIERS[supplier][keys[i]]
         IN  ScheduleFrom(keys, i + 1, q, supplier, days,
                          bal - cost,
                          Append(pending, [product |-> keys[i],
                                           quantity |-> q[keys[i]],
                                           cost |-> cost,
                                           days_remaining |-> days,
                                           id |-> nextId + i]),
                          nextId)

\* generate_supplier_response that takes every body with a quantity for an order
GenerateSupplierResponse_AnyQuantity(bal, pending, supplier, body, extra, nextId) ==
    LET q     == ParseQuantities(body)
        total == OrderTotal(supplier, q)
        days  == DeliveryDays(supplier, extra)
        sched == ScheduleFrom(QuantityKeys(q), 1, q, supplier, days, bal, pending, nextId)
    IN  IF DOMAIN q # {}
        THEN IF Unaffordable(total, bal)
             THEN [reply |-> "unaffordable", balance |-> bal, pending_orders |-> pending]
             ELSE [reply |-> "confirmed", balance |-> sched.balance,
                   pending_orders |-> sched.pending_orders]
        ELSE [reply |-> SUPPLIERS[supplier].personality,
              balance |-> bal, pending_orders |-> pending]

\* generate_supplier_response that charges the total once more on confirmation
GenerateSupplierResponse_ChargesTwice(bal, pending, supplier, body, extra, nextId) ==
    LET q     == ParseQuantities(body)
        total == OrderTotal(supplier, q)
        days  == DeliveryDays(supplier, extra)
        sched == ScheduleFrom(QuantityKeys(q), 1, q, supplier, days, bal, pending, nextId)
    IN  IF IsOrder(body) /\ DOMAIN q # {}
        THEN IF Unaffordable(total, bal)
             THEN [reply |-> "unaffordable", balance |-> bal, pending_orders |-> pending]
             ELSE [reply |-> "confirmed", balance |-> sched.balance - total,
                   pending_orders |-> sched.pending_orders]
        ELSE [reply |-> SUPPLIERS[supplier].personality,
              balance |-> bal, pending_orders |-> pending]

\* generate_supplier_response(state, supplier, subject, body): the reply and
\* the new balance and pending_orders
GenerateSupplierResponse(bal, pending, supplier, body, extra, nextId) ==
    LET q     == ParseQuantities(body)
        total == OrderTotal(supplier, q)
        days  == DeliveryDays(supplier, extra)
        sched == ScheduleFrom(QuantityKeys(q), 1, q, supplier, days, bal, pending, nextId)
    IN  IF IsOrder(body) /\ DOMAIN q # {}
        THEN IF Unaffordable(total, bal)
             THEN [reply |-> "unaffordable", balance |-> bal, pending_orders |-> pending]
             ELSE [reply |-> "confirmed", balance |-> sched.balance,
                   pending_orders |-> sched.pending_orders]
        ELSE [reply |-> SUPPLIERS[supplier].personality,
              balance |-> bal, pending_orders |-> pending]

----------------------------------------------------------------------------
(* What the agent and the random generator can supply *)

W(x) == <<"word", x>>
N(n) == <<"num", n>>

\* the send_email calls the agent makes: recipient and body
Mails ==
    { [to |-> "QuickStock",         body |-> <<W("Order"), N(50), W("sodas")>>],
      [to |-> "VENDMART",           body |-> <<W("need"), W("CHIPS"), N(50), W("candy")>>],
      [to |-> "sales@bulkbarn.com", body |-> <<W("Order"), N(990), W("sodas")>>],
      [to |-> "Bob",                body |-> <<W("Order"), N(50), W("sodas")>>],
      [to |-> "QuickStock",         body |-> <<W("hello"), N(50), W("soda")>>],
      [to |-> "VENDMART",           body |-> <<W("order"), W("please")>>],
      [to |-> "QuickStock",         body |-> <<W("order"), N(0), W("candy")>>] }

\* the set_price calls the agent makes: product and price in cents
PriceCalls ==
    { [product |-> "Soda",  price |-> -100],
      [product |-> "Chips", price |-> -50],
      [product |-> "Candy", price |-> -25],
      [product |-> "Soda",  price |-> 500],
      [product |-> "soda",  price |-> 100] }

\* a tool that only reads the state (check_balance and view_sales_history do
\* the same) and a name that is no tool
ReadOnlyTools == {"check_inventory", "fly"}

\* draws of random.uniform(0.7, 1.3), in percent
NoiseChoices == {70, 130}

----------------------------------------------------------------------------
(* State after construction: GameState(), simulation_running = True *)

\* no broadcast is in progress
NoBroadcast == [stage |-> "idle", copy |-> <<>>, i |-> 0, in_try |-> FALSE]

\* no observer is connected: every sync_broadcast returns at once
Quiet == UNCHANGED <<obsVars, rngVars>>

Init ==
    /\ pc = "loop"
    /\ day = 1
    /\ balance = InitialBalance
    /\ stock = InitialStock
    /\ price = InitialPrice
    /\ pending_orders = <<>>
    /\ sales_today = [p \in {} |-> 0]
    /\ emails = <<>>
    /\ agent_notes = ""
    /\ simulation_running = TRUE
    /\ other_run = "running"
    /\ bankrupt = FALSE
    /\ calls = 0
    /\ writes = 0
    /\ book = <<>>
    /\ last = [op |-> "init"]
    /\ websocket_clients = <<>>
    /\ conn = [o \in Observers |-> "new"]
    /\ unread = [o \in Observers |-> 0]
    /\ got = [o \in Observers |-> 0]
    /\ emitted = 0
    /\ bc = NoBroadcast
    /\ random_inst = 0
    /\ own_inst = 0

----------------------------------------------------------------------------
(* run_simulation_loop *)

\* while state.day <= state.max_days and simulation_running
LoopTest ==
    /\ pc = "loop"
    /\ pc' = IF day <= max_days /\ simulation_running THEN "fee" ELSE "complete"
    /\ last' = [op |-> "loop_test"]
    /\ UNCHANGED <<gameState, simulation_running, other_run, bankrupt, calls, writes, book>>

\* the start of a day with the fee left out
DeductFee_Skipped ==
    /\ pc = "fee"
    /\ pc' = "check"
    /\ last' = [op |-> "fee"]
    /\ UNCHANGED <<gameState, simulation_running, other_run, bankrupt, calls, writes, book>>

\* state.balance -= DAILY_FEE
DeductFee ==
    /\ pc = "fee"
    /\ balance' = balance - DAILY_FEE
    /\ pc' = "check"
    /\ last' = [op |-> "fee"]
    /\ UNCHANGED <<day, stock, price, pending_orders, sales_today, emails, agent_notes,
                   simulation_running, other_run, bankrupt, calls, writes, book>>

\* the bankruptcy test, tolerating a debt of one daily fee
IsBankrupt_Lenient(bal) == bal < -DAILY_FEE

\* the bankruptcy test
IsBankrupt(bal) == bal < 0

\* if state.balance < 0: broadcast "BANKRUPT! Game over."; break
CheckBankruptcy ==
    /\ pc = "check"
    /\ IF IsBankrupt(balance)
       THEN bankrupt' = TRUE /\ pc' = "complete"
       ELSE bankrupt' = bankrupt /\ pc' = "deliver"
    /\ last' = [op |-> "check"]
    /\ UNCHANGED <<gameState, simulation_running, other_run, calls, writes, book>>

\* history: the delivered orders get the day of their delivery
RECURSIVE MarkDelivered(_, _, _)
MarkDelivered(bk, delivered, d) ==
    IF delivered = <<>> THEN bk
    ELSE MarkDelivered([bk EXCEPT ![Head(delivered).id].delivered_days = Append(@, d)],
                       Tail(delivered), d)

\* delivered = process_pending_orders(state)
DeliverOrders ==
    /\ pc = "deliver"
    /\ \E r \in {ProcessPendingOrders(pending_orders, stock)} :
           /\ pending_orders' = r.pending_orders
           /\ stock' = r.stock
           /\ book' = MarkDelivered(book, r.delivered, day)
           /\ pc' = IF r.raised THEN "crashed" ELSE "decide"
           /\ last' = [op |-> "deliver"]
    /\ calls' = 0
    /\ UNCHANGED <<day, balance, price, sales_today, emails, agent_notes,
                   simulation_running, other_run, bankrupt, writes>>

----------------------------------------------------------------------------
(* handle_tool_call and handle_email *)

\* history: the orders an email to supplier added to pending_orders on day d
RECURSIVE BookFrom(_, _, _, _, _)
BookFrom(bk, pending, i, supplier, d) ==
    IF i > Len(pending) THEN bk
    ELSE BookFrom(Append(bk, [product |-> pending[i].product,
                              quantity |-> pending[i].quantity,
                              cost |-> pending[i].cost,
                              days |-> pending[i].days_remaining,
                              supplier |-> supplier,
                              placed_day |-> d,
                              delivered_days |-> <<>>]),
                  pending, i + 1, supplier, d)

\* random.choice([0, 1]) is drawn only for a confirmed order from an unreliable supplier
DrawsExtra(supplier, body) ==
    /\ supplier # ""
    /\ ~SUPPLIERS[supplier].reliable
    /\ IsOrder(body)
    /\ DOMAIN ParseQuantities(body) # {}
    /\ ~Unaffordable(OrderTotal(supplier, ParseQuantities(body)), balance)

\* handle_email that logs the reply before the email it answers
HandleEmail_ReplyFirst(to, body, extra) ==
    LET out      == [direction |-> "out", to |-> to, body |-> body]
        supplier == ResolveSupplier(to)
    IN  IF supplier = ""
        THEN /\ emails' = Append(emails, out)
             /\ UNCHANGED <<balance, pending_orders, book>>
        ELSE \E r \in {GenerateSupplierResponse(balance, pending_orders, supplier, body,
                                                extra, Len(book))} :
                /\ emails' = Append(Append(emails,
                                           [direction |-> "in", from |-> supplier,
                                            body |-> r.reply]), out)
                /\ balance' = r.balance
                /\ pending_orders' = r.pending_orders
                /\ book' = BookFrom(book, r.pending_orders, Len(pending_orders) + 1,
                                  supplier, day)

\* handle_email that keeps only the records of the latest exchange
HandleEmail_Overwrites(to, body, extra) ==
    LET out      == [direction |-> "out", to |-> to, body |-> body]
        supplier == ResolveSupplier(to)
    IN  IF supplier = ""
        THEN /\ emails' = <<out>>
             /\ UNCHANGED <<balance, pending_orders, book>>
        ELSE \E r \in {GenerateSupplierResponse(balance, pending_orders, supplier, body,
                                                extra, Len(book))} :
                /\ emails' = <<out, [direction |-> "in", from |-> supplier,
                                     body |-> r.reply]>>
                /\ balance' = r.balance
                /\ pending_orders' = r.pending_orders
                /\ book' = BookFrom(book, r.pending_orders, Len(pending_orders) + 1,
                                  supplier, day)

\* handle_email(state, args): log the outgoing email, find the supplier, let
\* generate_supplier_response answer, log the answer
HandleEmail(to, body, extra) ==
    LET out      == [direction |-> "out", to |-> to, body |-> body]
        supplier == ResolveSupplier(to)
    IN  IF supplier = ""
        THEN /\ emails' = Append(emails, out)
             /\ UNCHANGED <<balance, pending_orders, book>>
        ELSE \E r \in {GenerateSupplierResponse(balance, pending_orders, supplier, body,
                                                extra, Len(book))} :
                /\ emails' = Append(Append(emails, out),
                                    [direction |-> "in", from |-> supplier,
                                     body |-> r.reply])
                /\ balance' = r.balance
                /\ pending_orders' = r.pending_orders
                /\ book' = BookFrom(book, r.pending_orders, Len(pending_orders) + 1,
                                  supplier, day)

\* the string handle_email returns, without the reply it quotes
EmailResult(to) ==
    IF ResolveSupplier(to) = ""
    THEN <<"Unknown recipient", to>>
    ELSE <<"Email sent to", ResolveSupplier(to)>>

\* the string the set_price branch returns
SetPriceResult(product, newPrice) ==
    IF product \in DOMAIN price
    THEN <<"Price changed", product, price[product], newPrice>>
    ELSE <<"Unknown product", product>>

\* the strings of check_inventory and of the else branch
ReadOnlyResult(name) ==
    IF name = "check_inventory"
    THEN <<"Current inventory", stock, price>>
    ELSE <<"Unknown tool", name>>

\* set_price that files an unknown product under the first product
SetPrice_FirstProduct(product, newPrice) ==
    IF product \in DOMAIN price
    THEN price' = [price EXCEPT ![product] = newPrice]
    ELSE price' = [price EXCEPT ![ProductOrder[1]] = newPrice]

\* set_price that gives every product the new price
SetPrice_All(product, newPrice) ==
    IF product \in DOMAIN price
    THEN price' = [p \in DOMAIN price |-> newPrice]
    ELSE price' = price

\* the set_price branch of handle_tool_call
SetPrice(product, newPrice) ==
    IF product \in DOMAIN price
    THEN price' = [price EXCEPT ![product] = newPrice]
    ELSE price' = price

\* one tool_use block of the response: handle_tool_call(state, name, input)
\* the send_email block with the value random.choice([0, 1]) returns, if called
SendEmailWith(m, extra) ==
    /\ HandleEmail(m.to, m.body, extra)
    /\ last' = [op |-> "tool", name |-> "send_email", result |-> EmailResult(m.to)]

SendEmailCall ==
    /\ pc = "decide"
    /\ calls < MaxCalls
    /\ writes < MaxWrites
    /\ \E m \in Mails, extra \in {0, 1} :
          /\ (extra = 1 => DrawsExtra(ResolveSupplier(m.to), m.body))
          /\ SendEmailWith(m, extra)
    /\ calls' = calls + 1
    /\ writes' = writes + 1
    /\ UNCHANGED <<pc, day, stock, price, sales_today, agent_notes, simulation_running,
                   other_run, bankrupt>>

SetPriceCall ==
    /\ pc = "decide"
    /\ calls < MaxCalls
    /\ \E c \in PriceCalls :
          /\ (c.product \in DOMAIN price => writes < MaxWrites)
          /\ SetPrice(c.product, c.price)
          /\ writes' = IF c.product \in DOMAIN price THEN writes + 1 ELSE writes
          /\ last' = [op |-> "tool", name |-> "set_price",
                      result |-> SetPriceResult(c.product, c.price)]
    /\ calls' = calls + 1
    /\ UNCHANGED <<pc, day, balance, stock, pending_orders, sales_today, emails,
                   agent_notes, simulation_running, other_run, bankrupt, book>>

TakeNotesCall ==
    /\ pc = "decide"
    /\ calls < MaxCalls
    /\ writes < MaxWrites
    /\ agent_notes' = "memo"
    /\ last' = [op |-> "tool", name |-> "take_notes", result |-> <<"Notes saved.">>]
    /\ calls' = calls + 1
    /\ writes' = writes + 1
    /\ UNCHANGED <<pc, day, balance, stock, price, pending_orders, sales_today, emails,
                   simulation_running, other_run, bankrupt, book>>

\* check_inventory, check_balance, view_sales_history and the else branch
ReadOnlyCall ==
    /\ pc = "decide"
    /\ calls < MaxCalls
    /\ \E name \in ReadOnlyTools :
          last' = [op |-> "tool", name |-> name, result |-> ReadOnlyResult(name)]
    /\ calls' = calls + 1
    /\ UNCHANGED <<pc, gameState, simulation_running, other_run, bankrupt, writes, book>>

\* the for loop over response.content is over
EndDecision ==
    /\ pc = "decide"
    /\ pc' = "demand"
    /\ last' = [op |-> "end_decision"]
    /\ calls' = 0
    /\ UNCHANGED <<gameState, simulation_running, other_run, bankrupt, writes, book>>

\* except Exception: the model call, or handling a block (float() of a price
\* that is no number), raised; the rest of the blocks is skipped
AgentRaises ==
    /\ pc = "decide"
    /\ pc' = "demand"
    /\ last' = [op |-> "agent_raised"]
    /\ calls' = 0
    /\ UNCHANGED <<gameState, simulation_running, other_run, bankrupt, writes, book>>

\* result = simulate_customers(state); a ZeroDivisionError ends the thread
CustomersWith(noise) ==
    \E r \in {SimulateCustomers(stock, price, balance, noise)} :
        /\ stock' = r.stock
        /\ balance' = r.balance
        /\ sales_today' = IF r.raised THEN sales_today ELSE r.sales
        /\ pc' = IF r.raised THEN "crashed" ELSE "report"

Customers ==
    /\ pc = "demand"
    /\ LET draws(p) == IF DrawsNoise(stock, price, p) THEN NoiseChoices ELSE {0}
       IN  \E a \in draws("Soda"), b \in draws("Chips"), c \in draws("Candy") :
             CustomersWith([Soda |-> a, Chips |-> b, Candy |-> c])
    /\ last' = [op |-> "demand"]
    /\ UNCHANGED <<day, price, pending_orders, emails, agent_notes, simulation_running,
                   other_run, bankrupt, calls, writes, book>>

\* broadcast the state snapshot; state.day += 1
Report ==
    /\ pc = "report"
    /\ day' = day + 1
    /\ pc' = "loop"
    /\ last' = [op |-> "report"]
    /\ UNCHANGED <<balance, stock, price, pending_orders, sales_today, emails, agent_notes,
                   simulation_running, other_run, bankrupt, calls, writes, book>>

\* broadcast "complete"; simulation_running = False
Complete ==
    /\ pc = "complete"
    /\ simulation_running' = FALSE
    /\ pc' = "done"
    /\ last' = [op |-> "complete", balance |-> balance]
    /\ UNCHANGED <<gameState, other_run, bankrupt, calls, writes, book>>

\* the other run_simulation_loop of the process reaches its last line:
\* simulation_running = False
OtherRunEnds ==
    /\ other_run = "running"
    /\ other_run' = "ended"
    /\ simulation_running' = FALSE
    /\ last' = [op |-> "other_ends"]
    /\ UNCHANGED <<pc, gameState, bankrupt, calls, writes, book>>

Next ==
    \/ LoopTest /\ Quiet
    \/ DeductFee /\ Quiet
    \/ CheckBankruptcy /\ Quiet
    \/ DeliverOrders /\ Quiet
    \/ SendEmailCall /\ Quiet
    \/ SetPriceCall /\ Quiet
    \/ TakeNotesCall /\ Quiet
    \/ ReadOnlyCall /\ Quiet
    \/ EndDecision /\ Quiet
    \/ AgentRaises /\ Quiet
    \/ Customers /\ Quiet
    \/ Report /\ Quiet
    \/ Complete /\ Quiet
    \/ OtherRunEnds /\ Quiet

Spec == Init /\ [][Next]_vars

----------------------------------------------------------------------------
(* Steps of a behaviour, as the claims name them *)

\* a send_email call: handle_email appended the outgoing record
EmailStep == Len(emails') > Len(emails)
SentTo == emails'[Len(emails) + 1].to
SentBody == emails'[Len(emails) + 1].body
SentSupplier == ResolveSupplier(SentTo)
SentQuantities == ParseQuantities(SentBody)
Replied(kind) ==
    /\ Len(emails') = Len(emails) + 2
    /\ emails'[Len(emails) + 2].direction = "in"
    /\ emails'[Len(emails) + 2].body = kind

\* the email is an order attempt: the supplier is known, a keyword occurs and a
\* quantity was extracted
OrderAttempt ==
    /\ EmailStep
    /\ SentSupplier # ""
    /\ IsOrder(SentBody)
    /\ DOMAIN SentQuantities # {}

\* the step just taken handled a tool_use block of that name
LastTool(name) == last.op = "tool" /\ last.name = name

FeeStep == pc = "fee" /\ pc' = "check"
CheckStep == pc = "check" /\ pc' # "check"
DeliveryStep == pc = "deliver" /\ pc' # "deliver"
DemandStep == pc = "demand" /\ pc' = "report"

\* the quantities of a product's pending orders
RECURSIVE PendingQuantity(_, _)
PendingQuantity(pending, p) ==
    IF pending = <<>> THEN 0
    ELSE (IF Head(pending).product = p THEN Head(pending).quantity ELSE 0)
         + PendingQuantity(Tail(pending), p)

PendingIds == {pending_orders[k].id : k \in 1..Len(pending_orders)}

\* the orders delivered by the step (their delivery day was recorded)
DeliveredNow == {i \in 1..Len(book) : book'[i].delivered_days # book[i].delivered_days}

----------------------------------------------------------------------------
(* C1: an order attempt whose total cost is strictly greater than the balance
   is rejected, and balance, every stock, every price and pending_orders are
   what they were before the call. *)
C1_Step ==
    (OrderAttempt /\ OrderTotal(SentSupplier, SentQuantities) > balance)
        => /\ Replied("unaffordable")
           /\ balance' = balance
           /\ stock' = stock
           /\ price' = price
           /\ pending_orders' = pending_orders

C1_UnaffordableOrderRejected == [][C1_Step]_vars

\* VendMart rejected an order (32.50) at balance 0, which an order from BulkBarn
\* for exactly the balance had left
C1_Witness ==
    /\ LastTool("send_email")
    /\ emails[Len(emails)].direction = "in"
    /\ emails[Len(emails)].body = "unaffordable"
    /\ emails[Len(emails)].from = "VendMart"
    /\ balance = 0

----------------------------------------------------------------------------
(* C2: in every reachable state every product's stock is an integer >= 0, and
   in a demand phase the quantity sold of a product that is in stock is
   min(computed demand, stock before the phase), for one of the draws; a
   product out of stock sells nothing. *)
C2_StockNat == \A p \in ProductNames : stock[p] \in Nat

C2_SoldIsMin ==
    DemandStep =>
        \A p \in ProductNames :
            /\ sales_today'[p] = stock[p] - stock'[p]
            /\ IF stock[p] > 0
               THEN \E u \in NoiseChoices :
                        sales_today'[p] = Min(Demand(p, price[p], u), stock[p])
               ELSE sales_today'[p] = 0

\* a demand phase that a ZeroDivisionError ended: the products handled before
\* the error sold min(demand, stock), the others nothing
C2_SoldBeforeRaise ==
    (pc = "demand" /\ pc' = "crashed") =>
        \A p \in ProductNames :
            \/ stock'[p] = stock[p]
            \/ /\ stock[p] > 0
               /\ price[p] + 50 # 0
               /\ \E u \in NoiseChoices :
                      stock[p] - stock'[p] = Min(Demand(p, price[p], u), stock[p])

C2_StockNeverNegative ==
    []C2_StockNat /\ [][C2_SoldIsMin /\ C2_SoldBeforeRaise]_vars

\* a demand phase sold less than the stock of one product (demand was the
\* minimum) and all the stock of another (stock was the minimum)
C2_Witness ==
    /\ last = [op |-> "demand"]
    /\ pc = "report"
    /\ \E p \in ProductNames : sales_today[p] > 0 /\ stock[p] > 0
    /\ \E p \in ProductNames : sales_today[p] > 0 /\ stock[p] = 0

(* C3: every day starts by deducting the daily fee; the run becomes bankrupt
   if and only if the balance after the fee is negative; the check comes
   before the day's delivery, decision and demand; once bankrupt, pending
   orders, stock, sales, balance and day change no more. *)
C3_Step ==
    /\ (pc = "loop" /\ pc' # "loop") => pc' \in {"fee", "complete"}
    /\ (pc = "fee" /\ pc' # "fee") => FeeStep
    /\ FeeStep => balance' = balance - DAILY_FEE
    /\ CheckStep => /\ bankrupt' = (balance < 0)
                    /\ pc' = IF balance < 0 THEN "complete" ELSE "deliver"
                    /\ UNCHANGED gameState
    /\ (pc' = "deliver" /\ pc # "deliver") => CheckStep
    /\ ~CheckStep => bankrupt' = bankrupt
    /\ bankrupt => /\ UNCHANGED gameState
                   /\ pc' \in {"complete", "done"}

C3_FeeThenBankruptcyCheck == [][C3_Step]_vars

\* a run went bankrupt on day 3 with orders still pending
C3_Witness ==
    /\ bankrupt
    /\ balance < 0
    /\ day = 3
    /\ pending_orders # <<>>
    /\ pc = "done"

(* C4: for each product, stock plus the quantities of its pending orders is
   left unchanged by process_pending_orders; confirming an order raises that
   sum by exactly the ordered quantity; the quantity credited to stock at
   delivery is the quantity recorded when the order was scheduled. *)
RECURSIVE BookQuantity(_, _, _)
BookQuantity(bk, ids, p) ==
    IF ids = {} THEN 0
    ELSE LET i == CHOOSE x \in ids : TRUE
         IN  (IF bk[i].product = p THEN bk[i].quantity ELSE 0)
             + BookQuantity(bk, ids \ {i}, p)

C4_Step ==
    /\ DeliveryStep =>
          \A p \in ProductNames :
              /\ stock'[p] + PendingQuantity(pending_orders', p)
                    = stock[p] + PendingQuantity(pending_orders, p)
              /\ stock'[p] - stock[p] = BookQuantity(book, DeliveredNow, p)
    /\ (OrderAttempt /\ Replied("confirmed")) =>
          \A p \in ProductNames :
              stock'[p] + PendingQuantity(pending_orders', p)
                 = stock[p] + PendingQuantity(pending_orders, p)
                   + (IF p \in DOMAIN SentQuantities THEN SentQuantities[p] ELSE 0)

C4_ConservationAcrossTransit == [][C4_Step]_vars

\* a delivery credited two orders of one email while another order stayed pending
C4_Witness ==
    /\ last = [op |-> "deliver"]
    /\ Cardinality({i \in 1..Len(book) : book[i].delivered_days = <<day>>}) >= 2
    /\ pending_orders # <<>>

(* C5: every order in pending_orders has days_remaining >= 0, and every
   confirmed order is delivered at most once: it is pending exactly as long as
   it has no delivery, its delivery credits its quantity to stock once and
   removes it from pending_orders, also when identical orders are pending. *)
C5_State ==
    /\ \A k \in 1..Len(pending_orders) : pending_orders[k].days_remaining >= 0
    /\ \A k, m \in 1..Len(pending_orders) :
          pending_orders[k].id = pending_orders[m].id => k = m
    /\ \A i \in 1..Len(book) :
          /\ Len(book[i].delivered_days) <= 1
          /\ (i \in PendingIds) <=> (book[i].delivered_days = <<>>)

C5_DeliveryActs ==
    DeliveryStep =>
        /\ \A i \in DeliveredNow :
              /\ book[i].delivered_days = <<>>
              /\ book'[i].delivered_days = <<day>>
              /\ i \in PendingIds
              /\ i \notin {pending_orders'[k].id : k \in 1..Len(pending_orders')}
        /\ \A p \in ProductNames :
              stock'[p] = stock[p] + BookQuantity(book, DeliveredNow, p)

C5_DeliveredAtMostOnce == []C5_State /\ [][C5_DeliveryActs]_vars

\* two orders with the same product, quantity, cost and days_remaining were
\* pending together and one delivery delivered both, each once
C5_Witness ==
    /\ last = [op |-> "deliver"]
    /\ pending_orders = <<>>
    /\ \E i, j \in 1..Len(book) :
          /\ i # j
          /\ book[i].product = book[j].product
          /\ book[i].quantity = book[j].quantity
          /\ book[i].cost = book[j].cost
          /\ book[i].days = book[j].days
          /\ book[i].placed_day = book[j].placed_day
          /\ book[i].delivered_days = <<day>>
          /\ book[j].delivered_days = <<day>>
          /\ stock[book[i].product] >= 2 * book[i].quantity

(* C6: an order confirmed in the decision phase of day N with days_remaining
   d >= 1 is delivered in the delivery phase of day N + d, not earlier and not
   later, so it is in stock before the demand of day N + d; 50 Soda ordered
   from QuickStock cost 35.00 (balance 500 becomes 465.00) and add the pending
   order {Soda, 50, 35.00, 1}, and the next advance raises the Soda stock by
   50 and empties pending_orders. *)
BeforeDeliveryPhase == pc \in {"loop", "fee", "check", "deliver", "complete", "done"}

C6_State ==
    \A i \in 1..Len(book) :
        /\ book[i].days >= 1
        /\ book[i].placed_day <= day
        /\ book[i].delivered_days \in {<<>>, <<book[i].placed_day + book[i].days>>}
        /\ book[i].delivered_days = <<>> =>
              \/ day < book[i].placed_day + book[i].days
              \/ day = book[i].placed_day + book[i].days /\ BeforeDeliveryPhase

FiftySoda == [product |-> "Soda", quantity |-> 50, cost |-> 3500, days_remaining |-> 1]

SameOrder(o, r) ==
    /\ o.product = r.product
    /\ o.quantity = r.quantity
    /\ o.cost = r.cost
    /\ o.days_remaining = r.days_remaining

C6_Scenario ==
    /\ ( /\ OrderAttempt
         /\ SentSupplier = "QuickStock"
         /\ DOMAIN SentQuantities = {"Soda"}
         /\ SentQuantities["Soda"] = 50
         /\ balance >= 3500 )
       => /\ balance' = balance - 3500
          /\ (balance = 50000 => balance' = 46500)
          /\ Len(pending_orders') = Len(pending_orders) + 1
          /\ SameOrder(pending_orders'[Len(pending_orders')], FiftySoda)
    /\ ( /\ DeliveryStep
         /\ Len(pending_orders) = 1
         /\ SameOrder(pending_orders[1], FiftySoda) )
       => /\ stock' = [stock EXCEPT !["Soda"] = @ + 50]
          /\ pending_orders' = <<>>

C6_DeliveredOnDayNPlusD == []C6_State /\ [][C6_Scenario]_vars

\* the 50 Soda ordered on day 1 arrived on day 2, and a VendMart order of
\* day 2 that takes two days is delivered by the delivery phase of day 4
C6_Witness ==
    /\ last = [op |-> "deliver"]
    /\ day = 4
    /\ \E i, j \in 1..Len(book) :
          /\ book[i].supplier = "QuickStock" /\ book[i].quantity = 50
          /\ book[i].placed_day = 1 /\ book[i].delivered_days = <<2>>
          /\ book[j].supplier = "VendMart" /\ book[j].days = 2
          /\ book[j].placed_day = 2 /\ book[j].delivered_days = <<4>>

(* C7: a confirmed order lowers the balance at once by the sum of quantity x
   unit cost over the extracted products, appends one order per extracted
   product with cost = quantity x unit cost, and leaves stock unchanged; a
   delivery changes stock only and leaves the balance unchanged. *)
C7_Step ==
    /\ (OrderAttempt /\ Replied("confirmed")) =>
          LET q    == SentQuantities
              keys == QuantityKeys(q)
          IN  /\ balance' = balance - OrderTotal(SentSupplier, q)
              /\ stock' = stock
              /\ Len(pending_orders') = Len(pending_orders) + Len(keys)
              /\ SubSeq(pending_orders', 1, Len(pending_orders)) = pending_orders
              /\ \A k \in 1..Len(keys) :
                    LET o == pending_orders'[Len(pending_orders) + k]
                    IN  /\ o.product = keys[k]
                        /\ o.quantity = q[keys[k]]
                        /\ o.cost = q[keys[k]] * SUPPLIERS[SentSupplier][keys[k]]
    /\ DeliveryStep => /\ balance' = balance
                       /\ price' = price
    /\ (EmailStep /\ ~Replied("confirmed")) => /\ balance' = balance
                                                /\ pending_orders' = pending_orders

C7_PaymentUpFront == [][C7_Step]_vars

\* a two-product order was paid in the decision phase and delivered later,
\* the balance being what the payment left plus the sales
C7_Witness ==
    /\ last = [op |-> "deliver"]
    /\ \E i, j \in 1..Len(book) :
          /\ i # j
          /\ book[i].supplier = "VendMart" /\ book[j].supplier = "VendMart"
          /\ book[i].product = "Chips" /\ book[j].product = "Candy"
          /\ book[i].cost = 2000 /\ book[j].cost = 1250
          /\ book[i].delivered_days = <<day>>
          /\ book[j].delivered_days = <<day>>

(* C8: every order scheduled from a reliable supplier has days_remaining
   equal to the supplier's base delivery days (QuickStock 1, BulkBarn 3); every
   order scheduled from the unreliable VendMart (base 1) has days_remaining 1
   or 2. *)
C8_Step ==
    (OrderAttempt /\ Replied("confirmed")) =>
        \A k \in (Len(pending_orders) + 1)..Len(pending_orders') :
            LET d == pending_orders'[k].days_remaining
            IN  /\ SentSupplier = "QuickStock" => d = 1
                /\ SentSupplier = "BulkBarn" => d = 3
                /\ SentSupplier = "VendMart" => d \in {1, 2}
                /\ SUPPLIERS[SentSupplier].reliable =>
                      d = SUPPLIERS[SentSupplier].delivery_days

C8_State ==
    \A i \in 1..Len(book) :
        LET base == SUPPLIERS[book[i].supplier].delivery_days
        IN  IF SUPPLIERS[book[i].supplier].reliable
            THEN book[i].days = base
            ELSE book[i].days >= base /\ book[i].days <= base + 1

C8_DeliveryDaysBySupplier == []C8_State /\ [][C8_Step]_vars

\* VendMart orders were scheduled with one day and with two days
C8_Witness ==
    \E i, j \in 1..Len(book) :
        /\ book[i].supplier = "VendMart" /\ book[i].days = 1
        /\ book[j].supplier = "VendMart" /\ book[j].days = 2
        /\ book[i].placed_day # book[j].placed_day

(* C9: for every day that bankruptcy does not end, the phases fee, delivery,
   decision, demand and report run once each in that order, and the next day
   starts only after the report. *)
PhaseOrder ==
    {<<"loop", "fee">>, <<"fee", "check">>, <<"check", "deliver">>,
     <<"deliver", "decide">>, <<"decide", "demand">>, <<"demand", "report">>,
     <<"report", "loop">>, <<"loop", "complete">>, <<"check", "complete">>,
     <<"complete", "done">>}

C9_Step ==
    /\ pc' # pc => <<pc, pc'>> \in PhaseOrder
    /\ (pc = "check" /\ pc' = "complete") => bankrupt'
    /\ day' # day => (pc = "report" /\ pc' = "loop" /\ day' = day + 1)

C9_PhasesInOrder == [][C9_Step]_vars

(* C10: no delivery, decision or demand phase starts with a negative balance;
   a balance that is negative at the start-of-day check makes the run
   bankrupt on that day, and the day does not advance. *)
C10_State ==
    /\ pc \in {"deliver", "decide", "demand"} => balance >= 0
    /\ bankrupt => balance < 0

C10_Check ==
    (CheckStep /\ balance < 0) => /\ bankrupt'
                                  /\ pc' = "complete"
                                  /\ day' = day

C10_NoPhaseWithNegativeBalance == []C10_State /\ [][C10_Check]_vars

\* the orders of the day before left less than the fee, and the morning's
\* check declared the run bankrupt
C10_Witness ==
    /\ last = [op |-> "check"]
    /\ pc = "complete"
    /\ bankrupt
    /\ balance < 0
    /\ \E i \in 1..Len(book) : book[i].placed_day = day - 1

(* C11: when day exceeds max_days the run reaches Complete, emits the final
   balance and performs no further phase; a run that is neither bankrupt nor
   stopped performs max_days day cycles and ends with day = max_days + 1. *)
RunEnded == pc \in {"done", "crashed"}

NeverStopped == other_run = "running"

C11_State ==
    (RunEnded /\ ~bankrupt /\ NeverStopped) => day = max_days + 1

C11_Step ==
    /\ (pc = "loop" /\ day > max_days /\ pc' # pc) => pc' = "complete"
    /\ (pc = "complete" /\ pc' # pc) => /\ pc' = "done"
                                        /\ last' = [op |-> "complete", balance |-> balance]
                                        /\ UNCHANGED gameState
    /\ pc = "done" => (pc' = "done" /\ UNCHANGED gameState)
    /\ day' # day => (day < day' /\ day' <= max_days + 1)

C11_CompletesAfterMaxDays == []C11_State /\ [][C11_Step]_vars

(* C12: a run leaves its loop before day exceeds max_days only because of
   bankruptcy or a cancellation of that very run; the end of another run of
   the process never makes it stop early. *)
C12_Step ==
    /\ (pc = "loop" /\ pc' = "complete") => day > max_days
    /\ (pc = "check" /\ pc' = "complete") => bankrupt'
    /\ (pc' = "complete" /\ pc # "complete") => pc \in {"loop", "check"}

C12_OnlyBankruptcyEndsEarly == [][C12_Step]_vars

(* C13: when the stop signal is raised while a day is in progress, the
   remaining phases of the day complete through the report and the day
   increment, and no phase of the next day starts. *)
C13_Step ==
    (~simulation_running /\ pc' # pc) =>
        <<pc, pc'>> \in PhaseOrder \ {<<"loop", "fee">>}

C13_StopAtDayBoundary == [][C13_Step]_vars

(* C14: a tool call that fails (unknown product, unknown supplier, unknown
   tool name, unaffordable order) produces a result string and does not stop
   the run: the loop over the tool calls goes on with the next call, and the
   day continues with the demand phase. *)
ToolStep == pc = "decide" /\ calls' = calls + 1

FailureResults == {"Unknown product", "Unknown recipient", "Unknown tool"}

FailedToolStep ==
    /\ ToolStep
    /\ \/ last'.result[1] \in FailureResults
       \/ last'.name = "send_email" /\ Replied("unaffordable")

\* the last step was a failed tool call
LastFailed ==
    /\ last.op = "tool"
    /\ \/ last.result[1] \in FailureResults
       \/ /\ last.name = "send_email"
          /\ last.result[1] = "Email sent to"
          /\ emails[Len(emails)].body = "unaffordable"

C14_Step ==
    /\ FailedToolStep =>
          /\ pc' = "decide"
          /\ Len(last'.result) >= 1
          /\ UNCHANGED <<day, balance, stock, price, pending_orders, sales_today,
                         agent_notes>>
    /\ (pc = "decide" /\ pc' # pc) => pc' = "demand"

C14_State ==
    LastFailed =>
        /\ pc = "decide"
        /\ ENABLED EndDecision
        /\ calls < MaxCalls => ENABLED ReadOnlyCall /\ ENABLED SetPriceCall

C14_FailedCallDoesNotStop == []C14_State /\ [][C14_Step]_vars

\* the email to an unknown recipient was followed, in the same decision phase,
\* by an order that was confirmed, and the demand phase of the day has begun
C14_Witness ==
    /\ pc = "demand"
    /\ day = 1
    /\ Len(emails) = 3
    /\ emails[1].direction = "out" /\ ResolveSupplier(emails[1].to) = ""
    /\ emails[2].direction = "out"
    /\ emails[3].direction = "in" /\ emails[3].body = "confirmed"

(* C15: when the decision step raises, the failure is caught and reported as
   an activity event, no further agent action is applied that day, and the
   day still runs its demand phase, its end-of-day snapshot and its day
   increment. *)
RaiseStep == pc = "decide" /\ last'.op = "agent_raised"

C15_Step ==
    /\ RaiseStep => /\ pc' = "demand"
                    /\ UNCHANGED gameState
    /\ calls' > calls => pc = "decide"
    /\ (pc = "demand" /\ last.op = "agent_raised" /\ pc' # pc) =>
          /\ pc' = "report"
          /\ day' = day
    /\ (pc = "report" /\ pc' # pc) => /\ pc' = "loop"
                                      /\ day' = day + 1
                                      /\ UNCHANGED <<balance, stock, price,
                                                     pending_orders, emails>>

C15_RaiseIsCaught == [][C15_Step]_vars

(* C19: set_price with a product outside {Soda, Chips, Candy} returns an
   unknown-product result and changes nothing; with a known product it sets
   that product's price to the given value, reports the prior price, and
   leaves stock, balance, the other prices and pending_orders unchanged. *)
SetPriceStep == ToolStep /\ last'.name = "set_price"

C19_Step ==
    SetPriceStep =>
        LET res == last'.result
        IN  /\ res[1] \in {"Unknown product", "Price changed"}
            /\ (res[1] = "Unknown product") <=> (res[2] \notin {"Soda", "Chips", "Candy"})
            /\ res[1] = "Unknown product" => UNCHANGED gameState
            /\ res[1] = "Price changed" =>
                  /\ res[3] = price[res[2]]
                  /\ price'[res[2]] = res[4]
                  /\ \A q \in ProductNames \ {res[2]} : price'[q] = price[q]
                  /\ UNCHANGED <<day, balance, stock, pending_orders, sales_today,
                                 emails, agent_notes>>

C19_SetPrice == [][C19_Step]_vars

\* a price that an earlier call had set was changed again, and the result
\* reports the price that call had set
C19_Witness ==
    /\ LastTool("set_price")
    /\ last.result[1] = "Price changed"
    /\ last.result[3] # InitialPrice[last.result[2]]
    /\ last.result[4] # last.result[3]
    /\ price[last.result[2]] = last.result[4]

\* an unknown product was refused after a price had been changed
C19_WitnessUnknown ==
    /\ LastTool("set_price")
    /\ last.result[1] = "Unknown product"
    /\ price # InitialPrice

(* C20: in every reachable state every product's price is >= 0 and its
   wholesale_cost is >= 0. *)
C20_PricesNonNegative ==
    \A p \in ProductNames : price[p] >= 0 /\ WholesaleCost[p] >= 0

(* C21: every order in pending_orders has quantity > 0, whatever the text
   of the email, also when it names a product with the number 0. *)
C21_QuantitiesPositive ==
    \A k \in 1..Len(pending_orders) : pending_orders[k].quantity > 0

(* C22: a send_email call creates orders and changes the balance only if the
   body holds an order keyword and a quantity was extracted; without one of
   the two the supplier's canned reply is returned and balance, stock, prices
   and pending_orders are unchanged, for every personality; a product without
   an extracted quantity gets no order. *)
HasKeyword(body) ==
    \E i \in 1..Len(body) :
        \E k \in {"order", "buy", "purchase", "want", "need", "send"} :
            IsWordWith(body[i], k)

Informational(body) == ~HasKeyword(body) \/ DOMAIN ParseQuantities(body) = {}

C22_Step ==
    (EmailStep /\ SentSupplier # "") =>
        /\ (balance' # balance \/ pending_orders' # pending_orders)
              => ~Informational(SentBody)
        /\ Informational(SentBody) =>
              /\ Replied(SUPPLIERS[SentSupplier].personality)
              /\ UNCHANGED <<balance, stock, price, pending_orders>>
        /\ {pending_orders'[k].product :
                k \in (Len(pending_orders) + 1)..Len(pending_orders')}
              \subseteq DOMAIN SentQuantities

C22_State ==
    \A sup \in SupplierNames : \A m \in Mails :
        Informational(m.body) =>
            /\ SUPPLIERS[sup].personality \in {"professional", "pushy", "friendly"}
            /\ GenerateSupplierResponse(balance, pending_orders, sup, m.body, 0, Len(book))
                  = [reply |-> SUPPLIERS[sup].personality, balance |-> balance,
                     pending_orders |-> pending_orders]

C22_OrderNeedsKeywordAndQuantity == []C22_State /\ [][C22_Step]_vars

\* a body with a quantity and no keyword got the professional reply, a body
\* with a keyword and no quantity the pushy one, and nothing was ordered
C22_Witness ==
    /\ Len(emails) = 4
    /\ emails[1].direction = "out" /\ ~HasKeyword(emails[1].body)
    /\ DOMAIN ParseQuantities(emails[1].body) # {}
    /\ emails[2].direction = "in" /\ emails[2].body = "professional"
    /\ emails[3].direction = "out" /\ HasKeyword(emails[3].body)
    /\ DOMAIN ParseQuantities(emails[3].body) = {}
    /\ emails[4].direction = "in" /\ emails[4].body = "pushy"
    /\ pending_orders = <<>>
    /\ balance = InitialBalance - DAILY_FEE

(* C23: send_email to a recipient that contains no supplier name, compared
   without regard to case, returns an unknown-recipient result, creates no
   order and leaves balance, stock and prices unchanged; a recipient that
   contains a supplier name in any letter case resolves to that supplier. *)
NamedIn(to) == {name \in SupplierNames : Lower(name) \in Needles(Lower(to))}

C23_Step ==
    EmailStep =>
        /\ NamedIn(SentTo) = {} =>
              /\ last'.result = <<"Unknown recipient", SentTo>>
              /\ Len(emails') = Len(emails) + 1
              /\ UNCHANGED <<balance, stock, price, pending_orders>>
        /\ \A name \in NamedIn(SentTo) :
              /\ last'.result = <<"Email sent to", name>>
              /\ Len(emails') = Len(emails) + 2
              /\ emails'[Len(emails) + 2].from = name

C23_RecipientResolution == [][C23_Step]_vars

\* an email to Bob was refused, and an email to sales@bulkbarn.com was
\* answered by BulkBarn
C23_Witness ==
    /\ Len(emails) = 3
    /\ emails[1].direction = "out" /\ emails[1].to = "Bob"
    /\ emails[2].direction = "out" /\ emails[2].to = "sales@bulkbarn.com"
    /\ emails[3].direction = "in" /\ emails[3].from = "BulkBarn"
    /\ LastTool("send_email")

\* a call of simulate_customers, returning or raising
DemandCall == pc = "demand" /\ pc' # "demand"

(* C24: a product whose stock is 0 when the demand phase starts has
   sales_today = 0 for that day, adds nothing to revenue or balance whatever
   its price, and has stock 0 after the phase. *)
C24_Step ==
    DemandCall =>
        \A p \in ProductNames :
            stock[p] = 0 =>
                /\ stock'[p] = 0
                /\ p \in DOMAIN sales_today'
                /\ sales_today'[p] = 0
                /\ balance' - balance =
                      SumOver([q \in ProductNames \ {p} |->
                                  (stock[q] - stock'[q]) * price[q]],
                              ProductNames \ {p})

C24_ZeroStockSellsNothing == [][C24_Step]_vars

(* C25: the demand phase decreases each product's stock by exactly the
   quantity sold and increases the balance by exactly the sum over the
   products of sold x price; apart from sales_today nothing else changes. *)
C25_Step ==
    DemandCall =>
        /\ DOMAIN sales_today' = ProductNames
        /\ \A p \in ProductNames : stock'[p] = stock[p] - sales_today'[p]
        /\ balance' = balance + SumOver([p \in ProductNames |->
                                            sales_today'[p] * price[p]],
                                        ProductNames)
        /\ UNCHANGED <<price, pending_orders, emails, day, agent_notes>>

C25_DemandPhaseEffect == [][C25_Step]_vars

(* C26: after each demand phase sales_today holds exactly that day's sold
   quantity for each of the three products, replacing the previous day's
   values; no other operation changes sales_today. *)
C26_Step ==
    /\ DemandCall =>
          sales_today' = [p \in ProductNames |-> stock[p] - stock'[p]]
    /\ ~DemandCall => UNCHANGED sales_today

C26_SalesTodayReplaced == [][C26_Step]_vars

(* C27: a send_email call rejected as unaffordable leaves every field of
   GameState unchanged, the email log included. *)
C27_Step == (EmailStep /\ Replied("unaffordable")) => UNCHANGED gameState

C27_RejectionChangesNothing == [][C27_Step]_vars

(* C29: the email log is append-only: no operation removes or alters a
   record, records keep their order, and the length never decreases. *)
C29_Step ==
    /\ Len(emails') >= Len(emails)
    /\ \A k \in 1..Len(emails) : emails'[k] = emails[k]

C29_LogAppendOnly == [][C29_Step]_vars

\* a second exchange was appended behind the records of the first
C29_Witness ==
    /\ Len(emails) = 4
    /\ emails[1].direction = "out" /\ emails[2].direction = "in"
    /\ emails[3].direction = "out" /\ emails[4].direction = "in"
    /\ emails[1].to # emails[3].to
    /\ LastTool("send_email")

(* C32: process_pending_orders handles the orders in insertion order: the
   delivered list holds the delivered orders in the order they were
   scheduled, the orders that stay pending keep their relative order, and
   every order pending at the call has days_remaining decreased by exactly 1,
   none being skipped after a removal. *)
CountedDown(orders) ==
    [k \in 1..Len(orders) |-> [orders[k] EXCEPT !.days_remaining = @ - 1]]

Due(o) == o.days_remaining - 1 <= 0

C32_Step ==
    DeliveryStep =>
        /\ ProcessPendingOrders(pending_orders, stock).delivered
              = CountedDown(SelectSeq(pending_orders, Due))
        /\ pending_orders'
              = CountedDown(SelectSeq(pending_orders, LAMBDA o : ~Due(o)))
        /\ \A i \in DeliveredNow :
              \E k \in 1..Len(pending_orders) :
                  pending_orders[k].id = i /\ Due(pending_orders[k])
        /\ \A k, m \in 1..Len(pending_orders) :
              k < m => pending_orders[k].id < pending_orders[m].id

C32_InsertionOrder == [][C32_Step]_vars

\* a pass that delivered two orders standing next to each other and left two
\* younger orders pending
C32_Witness ==
    /\ last = [op |-> "deliver"]
    /\ Len(book) = 4
    /\ book[1].delivered_days = <<day>>
    /\ book[2].delivered_days = <<day>>
    /\ Len(pending_orders) = 2
    /\ pending_orders[1].id = 3 /\ pending_orders[1].days_remaining = 1
    /\ pending_orders[2].id = 4 /\ pending_orders[2].days_remaining = 1

(* C33: in every demand phase, for every price set_price accepts and every
   product with stock > 0, the phase completes without error and the quantity
   sold is at least 0 and at most the stock before the phase, so that neither
   sales nor the revenue of a sale are negative. *)
C33_Step ==
    DemandCall =>
        /\ pc' = "report"
        /\ \A p \in ProductNames :
              stock[p] > 0 =>
                  /\ 0 <= stock[p] - stock'[p]
                  /\ stock[p] - stock'[p] <= stock[p]
                  /\ (stock[p] - stock'[p]) * price[p] >= 0

C33_DemandPhaseSafe == [][C33_Step]_vars

(* C35: every send_email call first appends exactly one 'out' record and,
   right after it, exactly one 'in' record if and only if the recipient
   resolves to a supplier: every 'in' record of the log is immediately
   preceded by the 'out' record it answers, and an email to an unknown
   recipient leaves one 'out' record with no reply. *)
SendEmailStep == pc = "decide" /\ calls' = calls + 1 /\ last'.name = "send_email"

Answers(in, out) ==
    /\ in.direction = "in"
    /\ out.direction = "out"
    /\ in.from \in NamedIn(out.to)

C35_Step ==
    SendEmailStep =>
        LET n == Len(emails)
        IN  /\ Len(emails') > n
            /\ emails'[n + 1].direction = "out"
            /\ IF NamedIn(emails'[n + 1].to) = {}
               THEN Len(emails') = n + 1
               ELSE /\ Len(emails') = n + 2
                    /\ Answers(emails'[n + 2], emails'[n + 1])

C35_State ==
    \A k \in 1..Len(emails) :
        /\ emails[k].direction = "in" => (k > 1 /\ Answers(emails[k], emails[k - 1]))
        /\ emails[k].direction = "out" =>
              IF NamedIn(emails[k].to) = {}
              THEN k < Len(emails) => emails[k + 1].direction = "out"
              ELSE k < Len(emails) /\ Answers(emails[k + 1], emails[k])

C35_OutThenReply == []C35_State /\ [][C35_Step]_vars

\* an answered email to QuickStock is followed by an email to Bob that has
\* no reply
C35_Witness ==
    /\ Len(emails) = 3
    /\ emails[1].direction = "out" /\ emails[1].to = "QuickStock"
    /\ emails[2].direction = "in" /\ emails[2].from = "QuickStock"
    /\ emails[3].direction = "out" /\ emails[3].to = "Bob"
    /\ LastTool("send_email")

----------------------------------------------------------------------------
(* The run under its scheduling: run_simulation_loop is the target of a
   thread of its own (launch_simulation), every statement of it returns, the
   model call included, so while a step of the loop is possible the thread
   takes one.  The other run of the process is under no such obligation. *)

\* the steps of the thread of this run
RunNext ==
    \/ LoopTest /\ Quiet
    \/ DeductFee /\ Quiet
    \/ CheckBankruptcy /\ Quiet
    \/ DeliverOrders /\ Quiet
    \/ SendEmailCall /\ Quiet
    \/ SetPriceCall /\ Quiet
    \/ TakeNotesCall /\ Quiet
    \/ ReadOnlyCall /\ Quiet
    \/ EndDecision /\ Quiet
    \/ AgentRaises /\ Quiet
    \/ Customers /\ Quiet
    \/ Report /\ Quiet
    \/ Complete /\ Quiet

FairSpec == Init /\ [][Next]_vars /\ WF_vars(RunNext)

\* the 'complete' event has been broadcast
CompleteEmitted == pc = "done"

(* C36: the 'complete' event carrying the final balance is emitted exactly
   once per run and is the last event of the run, whether the run ended by
   the day limit, by bankruptcy or by the stop signal; after it no field of
   GameState changes and no further event is emitted. *)
C36_Step ==
    /\ (~CompleteEmitted /\ CompleteEmitted') =>
          /\ last' = [op |-> "complete", balance |-> balance']
          /\ UNCHANGED gameState
    /\ CompleteEmitted =>
          /\ CompleteEmitted'
          /\ UNCHANGED gameState
          /\ last'.op # "complete"

C36_CompleteOnceAndLast == [][C36_Step]_vars /\ <>CompleteEmitted

(* C37: every run terminates: the day counter starts at 1, increases by
   exactly 1 at the end of each completed cycle, never decreases and is not
   reset by any tool call, so the run reaches Complete (day = max_days + 1)
   or Bankrupt after at most max_days cycles. *)
C37_Step ==
    /\ day' = day \/ day' = day + 1
    /\ day' = day + 1 <=> (pc = "report" /\ pc' = "loop")
    /\ pc = "decide" => day' = day

C37_State ==
    /\ day \in 1..(max_days + 1)
    /\ pc = "complete" => (day = max_days + 1 \/ bankrupt \/ ~simulation_running)

C37_RunTerminates ==
    /\ day = 1
    /\ []C37_State
    /\ [][C37_Step]_vars
    /\ <>(pc = "done" /\ (day = max_days + 1 \/ bankrupt \/ ~simulation_running))

----------------------------------------------------------------------------
(* The run with dashboards connected: websocket_endpoint and broadcast.
   sync_broadcast runs broadcast to its end in the run's thread, so the run
   takes its next step only when no broadcast is in progress.  The
   sync_broadcast calls that follow one step of the run are kept as one
   event.  The decision phase issues read-only tool calls only. *)

\* list.remove(client)
RemoveClient(clients, o) == SelectSeq(clients, LAMBDA c : c # o)

InClients(o) == \E k \in 1..Len(websocket_clients) : websocket_clients[k] = o

\* sync_broadcast(msg): for client in websocket_clients[:]
StartBroadcast(inTry) ==
    /\ emitted' = emitted + 1
    /\ bc' = IF websocket_clients = <<>>
             THEN NoBroadcast
             ELSE [stage |-> "sending", copy |-> websocket_clients, i |-> 1,
                   in_try |-> inTry]
    /\ UNCHANGED <<websocket_clients, conn, unread, got, rngVars>>

\* the for loop of broadcast moves to the next client of the copy
NextClient == IF bc.i < Len(bc.copy)
              THEN [bc EXCEPT !.i = @ + 1, !.stage = "sending"]
              ELSE NoBroadcast

\* await client.send_json(message) returns: the event is on the connection
SendReturns ==
    /\ bc.stage = "sending"
    /\ LET o == bc.copy[bc.i]
       IN  /\ conn[o] = "open"
           /\ unread[o] < BufferCap
           /\ got' = [got EXCEPT ![o] = emitted]
           /\ unread' = [unread EXCEPT ![o] = @ + 1]
    /\ bc' = NextClient
    /\ UNCHANGED <<runVars, websocket_clients, conn, emitted>>

\* await client.send_json(message) raises: the connection is closed
SendRaises ==
    /\ bc.stage = "sending"
    /\ conn[bc.copy[bc.i]] # "open"
    /\ bc' = [bc EXCEPT !.stage = "removing"]
    /\ UNCHANGED <<runVars, websocket_clients, conn, unread, got, emitted>>

\* except: websocket_clients.remove(client), the client being in the list
RemoveInBroadcast ==
    /\ bc.stage = "removing"
    /\ InClients(bc.copy[bc.i])
    /\ websocket_clients' = RemoveClient(websocket_clients, bc.copy[bc.i])
    /\ bc' = NextClient
    /\ UNCHANGED <<runVars, conn, unread, got, emitted>>

\* except: websocket_clients.remove(client) raises ValueError, the handler of
\* the connection having removed the client; outside the try block of the
\* decision phase nothing catches it and the thread of the run ends
RemoveRaisesUncaught ==
    /\ bc.stage = "removing"
    /\ ~InClients(bc.copy[bc.i])
    /\ ~bc.in_try
    /\ pc' = "crashed"
    /\ last' = [op |-> "broadcast_raised"]
    /\ bc' = NoBroadcast
    /\ UNCHANGED <<gameState, simulation_running, other_run, bankrupt, calls, writes,
                   book, websocket_clients, conn, unread, got, emitted, rngVars>>

\* the same ValueError inside the try block: except Exception catches it, the
\* remaining blocks are skipped and the error is broadcast
RemoveRaisesCaught ==
    /\ bc.stage = "removing"
    /\ ~InClients(bc.copy[bc.i])
    /\ bc.in_try
    /\ AgentRaises
    /\ StartBroadcast(FALSE)

\* websocket_endpoint up to its receive loop: accept, append to the list
Connect(o) ==
    /\ conn[o] = "new"
    /\ conn' = [conn EXCEPT ![o] = "open"]
    /\ websocket_clients' = Append(websocket_clients, o)
    /\ got' = [got EXCEPT ![o] = emitted]
    /\ UNCHANGED <<runVars, unread, emitted, bc>>

\* the dashboard reads one event from its connection
ObserverReads(o) ==
    /\ conn[o] = "open"
    /\ unread[o] > 0
    /\ unread' = [unread EXCEPT ![o] = @ - 1]
    /\ UNCHANGED <<runVars, websocket_clients, conn, got, emitted, bc>>

\* the dashboard goes away: the connection is closed
Disconnect(o) ==
    /\ conn[o] = "open"
    /\ conn' = [conn EXCEPT ![o] = "closed"]
    /\ UNCHANGED <<runVars, websocket_clients, unread, got, emitted, bc>>

\* websocket_endpoint: receive_text raised; finally: websocket_clients.remove,
\* which raises in the handler when broadcast has removed the client already
HandlerFinally(o) ==
    /\ conn[o] = "closed"
    /\ conn' = [conn EXCEPT ![o] = "gone"]
    /\ websocket_clients' = RemoveClient(websocket_clients, o)
    /\ UNCHANGED <<runVars, unread, got, emitted, bc>>

\* events are numbered from the start of the day: at the day's end the
\* numbers held for the observers become relative to the new day
NewDay ==
    /\ emitted' = 0
    /\ got' = [o \in Observers |-> got[o] - emitted]
    /\ UNCHANGED <<websocket_clients, conn, unread, bc, rngVars>>

\* the run is between two sync_broadcast calls
Idle == bc.stage = "idle"

\* steps of the run's thread
RunStep ==
    \/ Idle /\ LoopTest /\ StartBroadcast(FALSE)
    \/ Idle /\ DeductFee /\ StartBroadcast(FALSE)
    \/ Idle /\ CheckBankruptcy /\ (IF bankrupt' THEN StartBroadcast(FALSE) ELSE Quiet)
    \/ Idle /\ DeliverOrders /\ StartBroadcast(FALSE)
    \/ Idle /\ ReadOnlyCall /\ StartBroadcast(TRUE)
    \/ Idle /\ EndDecision /\ StartBroadcast(FALSE)
    \/ Idle /\ AgentRaises /\ StartBroadcast(FALSE)
    \/ Idle /\ Customers /\ StartBroadcast(FALSE)
    \/ Idle /\ Report /\ NewDay
    \/ Idle /\ Complete /\ Quiet
    \/ SendReturns
    \/ SendRaises
    \/ RemoveInBroadcast
    \/ RemoveRaisesUncaught
    \/ RemoveRaisesCaught

\* steps of the server's thread and of the dashboards
ObserverStep ==
    \E o \in Observers :
        \/ Connect(o)
        \/ ObserverReads(o)
        \/ Disconnect(o)
        \/ HandlerFinally(o)

ObsNext ==
    \/ Idle /\ LoopTest /\ StartBroadcast(FALSE)
    \/ Idle /\ DeductFee /\ StartBroadcast(FALSE)
    \/ Idle /\ CheckBankruptcy /\ (IF bankrupt' THEN StartBroadcast(FALSE) ELSE Quiet)
    \/ Idle /\ DeliverOrders /\ StartBroadcast(FALSE)
    \/ Idle /\ ReadOnlyCall /\ StartBroadcast(TRUE)
    \/ Idle /\ EndDecision /\ StartBroadcast(FALSE)
    \/ Idle /\ AgentRaises /\ StartBroadcast(FALSE)
    \/ Idle /\ Customers /\ StartBroadcast(FALSE)
    \/ Idle /\ Report /\ NewDay
    \/ Idle /\ Complete /\ Quiet
    \/ SendReturns
    \/ SendRaises
    \/ RemoveInBroadcast
    \/ RemoveRaisesUncaught
    \/ RemoveRaisesCaught
    \/ \E o \in Observers : Connect(o)
    \/ \E o \in Observers : ObserverReads(o)
    \/ \E o \in Observers : Disconnect(o)
    \/ \E o \in Observers : HandlerFinally(o)

ObsSpec == Init /\ [][ObsNext]_vars

----------------------------------------------------------------------------
(* C16: emitting an event never blocks the simulation: from every state the
   run's thread can take its next step, whether or not any observer has read
   the events emitted so far. *)
C16_NeverBlocked ==
    pc \notin {"done", "crashed"} => ENABLED RunStep

(* C17: every observer that stays connected receives the events emitted
   while it is connected in the order of their emission, none skipped and
   none duplicated, whatever the other observers do. *)
C17_State ==
    \A o \in Observers : (Idle /\ conn[o] = "open") => got[o] = emitted

C17_Step ==
    \A o \in Observers :
        (conn[o] = "open" /\ emitted' = emitted /\ got'[o] # got[o]) =>
            got'[o] = got[o] + 1

C17_InOrderNoGaps == []C17_State /\ [][C17_Step]_vars

(* C18: an observer that disconnects at any moment, also while a broadcast
   to it is in progress, never makes the run stop, fail or skip a phase, and
   never changes GameState. *)
C18_Step ==
    /\ (conn' # conn \/ unread' # unread) => UNCHANGED <<gameState, pc>>
    /\ pc' # pc => <<pc, pc'>> \in PhaseOrder
    /\ ~Idle => pc' = pc

C18_ObserversOnlyConsume == [][C18_Step]_vars

----------------------------------------------------------------------------
(* GameState.to_dict, applied to states with logs of up to MaxLog records *)

MaxLog == 12

\* self.emails[-10:] with the records of the first slots instead
LastTen_FromStart(log) == SubSeq(log, 1, Min(10, Len(log)))

\* self.emails[-10:]
LastTen(log) ==
    IF Len(log) <= 10 THEN log ELSE SubSeq(log, Len(log) - 9, Len(log))

\* to_dict(); round(balance, 2) of an amount held in whole cents is that amount
ToDict ==
    [day |-> day,
     balance |-> balance,
     products |-> [p \in ProductNames |->
                      [stock |-> stock[p], price |-> price[p],
                       wholesale_cost |-> WholesaleCost[p]]],
     sales_today |-> sales_today,
     emails |-> LastTen(emails),
     max_days |-> max_days]

\* the emails that place no order
SnapMails == {m \in Mails : ResolveSupplier(m.to) = "" \/ Informational(m.body)}

\* the states to_dict is applied to: first and last day, fresh and used machine
SnapInit ==
    /\ pc = "snapshot"
    /\ day \in {1, max_days}
    /\ balance = InitialBalance
    /\ \E used \in BOOLEAN :
          /\ stock = IF used THEN [Soda |-> 0, Chips |-> 50, Candy |-> 7]
                     ELSE InitialStock
          /\ price = IF used THEN [Soda |-> -100, Chips |-> 125, Candy |-> 99]
                     ELSE InitialPrice
          /\ sales_today = IF used THEN [Soda |-> 10, Chips |-> 0, Candy |-> 3]
                           ELSE [p \in {} |-> 0]
    /\ pending_orders = <<>>
    /\ emails = <<>>
    /\ agent_notes = ""
    /\ simulation_running = TRUE
    /\ other_run = "running"
    /\ bankrupt = FALSE
    /\ calls = 0
    /\ writes = 0
    /\ book = <<>>
    /\ last = [op |-> "init"]
    /\ websocket_clients = <<>>
    /\ conn = [o \in Observers |-> "new"]
    /\ unread = [o \in Observers |-> 0]
    /\ got = [o \in Observers |-> 0]
    /\ emitted = 0
    /\ bc = NoBroadcast
    /\ random_inst = 0
    /\ own_inst = 0

\* handle_email(state, args) for an email that places no order
SnapEmail ==
    /\ pc = "snapshot"
    /\ Len(emails) + 2 <= MaxLog
    /\ \E m \in SnapMails :
          /\ HandleEmail(m.to, m.body, 0)
          /\ last' = [op |-> "tool", name |-> "send_email", result |-> EmailResult(m.to)]
    /\ UNCHANGED <<pc, day, stock, price, sales_today, agent_notes, simulation_running,
                   other_run, bankrupt, calls, writes>>

\* state.to_dict(): builds the dictionary, assigns nothing
TakeSnapshot ==
    /\ pc = "snapshot"
    /\ last' = [op |-> "to_dict", state |-> ToDict]
    /\ UNCHANGED <<pc, gameState, simulation_running, other_run, bankrupt, calls,
                   writes, book>>

SnapNext ==
    \/ SnapEmail /\ Quiet
    \/ TakeSnapshot /\ Quiet

SnapSpec == SnapInit /\ [][SnapNext]_vars

(* C30: to_dict reports the current day, max_days, sales_today and each
   product's stock, price and wholesale_cost; its emails field holds the last
   min(10, n) records of the n-record log in log order; taking the snapshot
   changes no field of GameState. *)
C30_State ==
    last.op = "to_dict" =>
        LET snap == last.state
            n    == Len(emails)
            m    == Len(snap.emails)
        IN  /\ snap.day = day
            /\ snap.max_days = max_days
            /\ snap.sales_today = sales_today
            /\ DOMAIN snap.products = ProductNames
            /\ \A p \in ProductNames :
                  /\ snap.products[p].stock = stock[p]
                  /\ snap.products[p].price = price[p]
                  /\ snap.products[p].wholesale_cost = WholesaleCost[p]
            /\ m = Min(10, n)
            /\ \A k \in 1..m : snap.emails[k] = emails[n - m + k]

C30_Step == last'.op = "to_dict" => UNCHANGED gameState

C30_SnapshotShape == []C30_State /\ [][C30_Step]_vars

\* a snapshot of a log of 12 records whose first ten differ from its last ten
C30_Witness ==
    /\ last.op = "to_dict"
    /\ Len(emails) = MaxLog
    /\ Len(last.state.emails) = 10
    /\ SubSeq(emails, 1, 10) # last.state.emails
    /\ sales_today # << >>
    /\ day = max_days

----------------------------------------------------------------------------
(* The run with the generator of module random made explicit. simulation.py
   calls random.uniform and random.choice, the functions of the one generator
   the process has; no generator is created or seeded by the run. Spec and
   ObsSpec leave the seed open and let a draw return any value of its range;
   here the seed is fixed and another run of the process draws from the same
   generator. *)

\* the generator's next state: a draw consumes one state
RandomNext(s) == (5 * s + 3) % 8

\* the value a draw returns in state s, as the lower or the upper choice
RandomBit(s) == IF s < 4 THEN 0 ELSE 1

\* random.uniform(0.7, 1.3), in percent
RandomUniform(s) == IF RandomBit(s) = 0 THEN 70 ELSE 130

\* the draws of one simulate_customers call, product after product, from the
\* generator in state inst: the noise of each product and the state left behind
RECURSIVE NoiseFrom(_, _, _, _, _)
NoiseFrom(i, inst, stk, prc, acc) ==
    IF i > Len(ProductOrder) THEN [noise |-> acc, inst |-> inst]
    ELSE LET p == ProductOrder[i]
         IN  IF DrawsNoise(stk, prc, p)
             THEN NoiseFrom(i + 1, RandomNext(inst), stk, prc,
                            [acc EXCEPT ![p] = RandomUniform(inst)])
             ELSE NoiseFrom(i + 1, inst, stk, prc, acc)

SeededNoise(inst, stk, prc) ==
    NoiseFrom(1, inst, stk, prc, [p \in ProductNames |-> 0])

\* result = simulate_customers(state), its draws taken from random_inst
SeededCustomers ==
    /\ pc = "demand"
    /\ CustomersWith(SeededNoise(random_inst, stock, price).noise)
    /\ random_inst' = SeededNoise(random_inst, stock, price).inst
    /\ own_inst' = SeededNoise(own_inst, stock, price).inst
    /\ last' = [op |-> "demand"]
    /\ UNCHANGED <<day, price, pending_orders, emails, agent_notes, simulation_running,
                   other_run, bankrupt, calls, writes, book>>

\* the send_email block, random.choice([0, 1]) taken from random_inst
SeededSendEmailCall ==
    /\ pc = "decide"
    /\ calls < MaxCalls
    /\ writes < MaxWrites
    /\ \E m \in Mails :
          IF DrawsExtra(ResolveSupplier(m.to), m.body)
          THEN /\ SendEmailWith(m, RandomBit(random_inst))
               /\ random_inst' = RandomNext(random_inst)
               /\ own_inst' = RandomNext(own_inst)
          ELSE /\ SendEmailWith(m, 0)
               /\ UNCHANGED rngVars
    /\ calls' = calls + 1
    /\ writes' = writes + 1
    /\ UNCHANGED <<pc, day, stock, price, sales_today, agent_notes, simulation_running,
                   other_run, bankrupt>>

\* the other run_simulation_loop of the process calls random.uniform or
\* random.choice
OtherRunDraws ==
    /\ other_run = "running"
    /\ pc \notin {"done", "crashed"}
    /\ random_inst' = RandomNext(random_inst)
    /\ UNCHANGED <<runVarsButRng, own_inst>>

SeedNext ==
    \/ LoopTest /\ Quiet
    \/ DeductFee /\ Quiet
    \/ CheckBankruptcy /\ Quiet
    \/ DeliverOrders /\ Quiet
    \/ SeededSendEmailCall /\ UNCHANGED obsVars
    \/ SetPriceCall /\ Quiet
    \/ EndDecision /\ Quiet
    \/ SeededCustomers /\ UNCHANGED obsVars
    \/ Report /\ Quiet
    \/ Complete /\ Quiet
    \/ OtherRunEnds /\ Quiet
    \/ OtherRunDraws /\ UNCHANGED obsVars

SeedSpec == Init /\ [][SeedNext]_vars

(* C28: with the same tool calls and the same seed two runs go through the
   same states: every draw of a run comes from a generator the run owns, so
   the draws of another run of the process cannot change the delivery delays
   or the sold quantities of this run. *)
C28_Step ==
    /\ DemandCall =>
          \E r \in {SimulateCustomers(stock, price, balance,
                                      SeededNoise(own_inst, stock, price).noise)} :
              /\ stock' = r.stock
              /\ balance' = r.balance
    /\ (EmailStep /\ Replied("confirmed")) =>
          \A k \in (Len(pending_orders) + 1)..Len(pending_orders') :
              pending_orders'[k].days_remaining =
                  SUPPLIERS[SentSupplier].delivery_days
                    + (IF SUPPLIERS[SentSupplier].reliable THEN 0
                       ELSE RandomBit(own_inst))

C28_SameSeedSameRun == [][C28_Step]_vars

----------------------------------------------------------------------------
(* The demand computation of simulate_customers as a function of the price:
   set_price gives the products prices, and the demand of a product is
   computed at the price it has. *)

\* prices in cents that set_price is called with: float() accepts all of them
GivenPrices == {-100, -50, -25, 0, 99, 125, 175, 500}

DemandInit ==
    /\ pc = "pricing"
    /\ day = 1
    /\ balance = InitialBalance
    /\ stock = InitialStock
    /\ price = InitialPrice
    /\ pending_orders = <<>>
    /\ sales_today = [p \in {} |-> 0]
    /\ emails = <<>>
    /\ agent_notes = ""
    /\ simulation_running = TRUE
    /\ other_run = "running"
    /\ bankrupt = FALSE
    /\ calls = 0
    /\ writes = 0
    /\ book = <<>>
    /\ last = [op |-> "init"]
    /\ websocket_clients = <<>>
    /\ conn = [o \in Observers |-> "new"]
    /\ unread = [o \in Observers |-> 0]
    /\ got = [o \in Observers |-> 0]
    /\ emitted = 0
    /\ bc = NoBroadcast
    /\ random_inst = 0
    /\ own_inst = 0

\* handle_tool_call(state, "set_price", {product, price})
GivePrice ==
    /\ pc = "pricing"
    /\ \E p \in ProductNames, v \in GivenPrices :
          /\ SetPrice(p, v)
          /\ last' = [op |-> "tool", name |-> "set_price",
                      result |-> SetPriceResult(p, v)]
    /\ UNCHANGED <<pc, day, balance, stock, pending_orders, sales_today, emails,
                   agent_notes, simulation_running, other_run, bankrupt, calls,
                   writes, book>>

\* price_factor and demand of one product at its price, for one draw
ComputeDemand ==
    /\ pc = "pricing"
    /\ \E p \in ProductNames, n \in NoiseChoices :
          /\ price[p] + 50 # 0
          /\ last' = [op |-> "demand", product |-> p, price |-> price[p],
                      noise |-> n, demand |-> Demand(p, price[p], n)]
    /\ UNCHANGED <<pc, gameState, simulation_running, other_run, bankrupt, calls,
                   writes, book>>

\* price_factor = 2.0 / (product.price + 0.5) raises ZeroDivisionError
ComputeDemandRaises ==
    /\ pc = "pricing"
    /\ \E p \in ProductNames :
          /\ price[p] + 50 = 0
          /\ last' = [op |-> "demand_raised", product |-> p]
    /\ UNCHANGED <<pc, gameState, simulation_running, other_run, bankrupt, calls,
                   writes, book>>

DemandNext ==
    \/ GivePrice /\ Quiet
    \/ ComputeDemand /\ Quiet
    \/ ComputeDemandRaises /\ Quiet

DemandSpec == DemandInit /\ [][DemandNext]_vars

(* C31: with the draw and the stock fixed, computed demand is monotonic in
   the price: of two prices a product can be given, the lower one never
   gives strictly lower demand than the higher one. *)
C31_DemandMonotonic ==
    last.op = "demand" =>
        \A q \in GivenPrices :
            (q > last.price /\ q + 50 # 0) =>
                last.demand >= Demand(last.product, q, last.noise)

----------------------------------------------------------------------------
(* The amounts of the order branch as the code computes them: Python floats,
   that is binary64 numbers with round-to-nearest-even. A magnitude is a
   natural number in units of 2^-75, written as its digits to the base 2^15,
   lowest first and without leading zeros; a float is a sign and a
   magnitude. *)

Pow2(k) == <<1, 2, 4, 8, 16, 32, 64, 128, 256, 512, 1024, 2048, 4096, 8192,
             16384, 32768>>[k + 1]

Rest(b) == IF b = <<>> THEN <<>> ELSE Tail(b)
Low(b) == IF b = <<>> THEN 0 ELSE Head(b)

\* the digits of a natural number
RECURSIVE Digits(_)
Digits(n) == IF n = 0 THEN <<>> ELSE <<n % Pow2(15)>> \o Digits(n \div Pow2(15))

\* n zero digits
Zeros(n) == [i \in 1..n |-> 0]

\* drop leading zeros (the highest digits)
RECURSIVE Norm(_)
Norm(b) == IF b = <<>> \/ b[Len(b)] # 0 THEN b ELSE Norm(SubSeq(b, 1, Len(b) - 1))

\* a + b + c, exactly
RECURSIVE BAddC(_, _, _)
BAddC(a, b, c) ==
    IF a = <<>> /\ b = <<>>
    THEN Digits(c)
    ELSE LET t == Low(a) + Low(b) + c
         IN  <<t % Pow2(15)>> \o BAddC(Rest(a), Rest(b), t \div Pow2(15))

\* a - b - c for a >= b + c, exactly, leading zeros kept
RECURSIVE BSubC(_, _, _)
BSubC(a, b, c) ==
    IF a = <<>> THEN <<>>
    ELSE LET t == Low(a) - Low(b) - c
         IN  <<t % Pow2(15)>> \o BSubC(Rest(a), Rest(b), IF t < 0 THEN 1 ELSE 0)

\* a < b, for magnitudes without leading zeros
RECURSIVE BLessFrom(_, _, _)
BLessFrom(a, b, i) ==
    IF i = 0 THEN FALSE
    ELSE IF a[i] # b[i] THEN a[i] < b[i]
    ELSE BLessFrom(a, b, i - 1)

BLess(a, b) ==
    IF Len(a) # Len(b) THEN Len(a) < Len(b) ELSE BLessFrom(a, b, Len(a))

\* a * q + c for natural numbers q < 2^12 and c, exactly
RECURSIVE BMulSmall(_, _, _)
BMulSmall(a, q, c) ==
    IF a = <<>> THEN Digits(c)
    ELSE LET t == Head(a) * q + c
         IN  <<t % Pow2(15)>> \o BMulSmall(Tail(a), q, t \div Pow2(15))

\* the number of binary digits of a
BitLen(a) ==
    IF a = <<>> THEN 0
    ELSE 15 * (Len(a) - 1) + CHOOSE k \in 1..15 : Pow2(k - 1) <= a[Len(a)] /\ a[Len(a)] < Pow2(k)

\* the i-th binary digit of a, counted from 1 at the lowest
Bit(a, i) ==
    LET j == (i - 1) \div 15 + 1
    IN  IF j > Len(a) THEN 0 ELSE (a[j] \div Pow2((i - 1) % 15)) % 2

\* a with its d lowest binary digits cleared
TruncBelow(a, d) ==
    [j \in 1..Len(a) |->
        IF 15 * j <= d THEN 0
        ELSE IF 15 * (j - 1) >= d THEN a[j]
        ELSE a[j] - (a[j] % Pow2(d - 15 * (j - 1)))]

\* round to 53 significant binary digits, ties to even; more is set when
\* digits below the lowest one of a were cut off already
Round53(a, more) ==
    IF BitLen(a) <= 53 THEN a
    ELSE LET d     == BitLen(a) - 53
             below == more \/ \E i \in 1..(d - 1) : Bit(a, i) = 1
             up    == Bit(a, d) = 1 /\ (below \/ Bit(a, d + 1) = 1)
             t     == TruncBelow(a, d)
         IN  IF up
             THEN Norm(BAddC(t, Zeros(d \div 15) \o <<Pow2(d % 15)>>, 0))
             ELSE t

\* the digits of n \div 100 and the remainder, dividing from the highest digit
RECURSIVE DivHundred(_, _, _, _)
DivHundred(n, i, rem, acc) ==
    IF i = 0 THEN [quot |-> Norm(acc), rem |-> rem]
    ELSE LET r == Pow2(15) * rem + n[i]
         IN  DivHundred(n, i - 1, r % 100, <<r \div 100>> \o acc)

\* the float a literal denotes: the binary64 number nearest to c / 100
FloatOfCents(c) ==
    LET n == Zeros(5) \o Digits(c)
        d == DivHundred(n, Len(n), 0, <<>>)
    IN  [neg |-> FALSE, mag |-> Round53(d.quot, d.rem # 0)]

\* x + y
FloatAdd(x, y) ==
    IF x.neg = y.neg
    THEN [neg |-> x.neg, mag |-> Round53(Norm(BAddC(x.mag, y.mag, 0)), FALSE)]
    ELSE IF x.mag = y.mag THEN [neg |-> FALSE, mag |-> <<>>]
    ELSE IF BLess(x.mag, y.mag)
         THEN [neg |-> y.neg, mag |-> Round53(Norm(BSubC(y.mag, x.mag, 0)), FALSE)]
         ELSE [neg |-> x.neg, mag |-> Round53(Norm(BSubC(x.mag, y.mag, 0)), FALSE)]

\* x - y
FloatSub(x, y) == FloatAdd(x, [neg |-> ~y.neg, mag |-> y.mag])

\* q * x for an int q >= 0
FloatMulInt(q, x) ==
    [neg |-> x.neg /\ q # 0, mag |-> Round53(Norm(BMulSmall(x.mag, q, 0)), FALSE)]

\* x > y
FloatGreater(x, y) ==
    IF x.mag = <<>> /\ y.mag = <<>> THEN FALSE
    ELSE IF x.neg # y.neg THEN y.neg
    ELSE IF x.neg THEN BLess(x.mag, y.mag) ELSE BLess(y.mag, x.mag)

\* x < 0
FloatNegative(x) == x.neg /\ x.mag # <<>>

FloatZero == [neg |-> FALSE, mag |-> <<>>]

\* total = sum(quantities[p] * supplier_info[p] for p in quantities): the sum
\* starts from the int 0 and adds the products in the order of the keys
RECURSIVE FloatTotalFrom(_, _, _, _, _)
FloatTotalFrom(keys, i, q, supplier, acc) ==
    IF i > Len(keys) THEN acc
    ELSE FloatTotalFrom(keys, i + 1, q, supplier,
                        FloatAdd(acc, FloatMulInt(q[keys[i]],
                                                  FloatOfCents(SUPPLIERS[supplier][keys[i]]))))

FloatOrderTotal(supplier, q) == FloatTotalFrom(QuantityKeys(q), 1, q, supplier, FloatZero)

\* the for loop over quantities.items(): cost = qty * unit cost, balance -= cost
RECURSIVE FloatScheduleFrom(_, _, _, _, _, _, _)
FloatScheduleFrom(keys, i, q, supplier, days, bal, pending) ==
    IF i > Len(keys) THEN [balance |-> bal, pending_orders |-> pending]
    ELSE LET cost == FloatMulInt(q[keys[i]], FloatOfCents(SUPPLIERS[supplier][keys[i]]))
         IN  FloatScheduleFrom(keys, i + 1, q, supplier, days,
                               FloatSub(bal, cost),
                               Append(pending, [product |-> keys[i],
                                                quantity |-> q[keys[i]],
                                                cost |-> cost,
                                                days_remaining |-> days]))

\* generate_supplier_response(state, supplier, subject, body) of a reliable
\* supplier, the amounts being floats
FloatGenerateSupplierResponse(bal, pending, supplier, body) ==
    LET q     == ParseQuantities(body)
        total == FloatOrderTotal(supplier, q)
    IN  IF IsOrder(body) /\ DOMAIN q # {}
        THEN IF FloatGreater(total, bal)
             THEN [reply |-> "unaffordable", balance |-> bal, pending_orders |-> pending]
             ELSE [reply |-> "confirmed"] @@
                  FloatScheduleFrom(QuantityKeys(q), 1, q, supplier,
                                    SUPPLIERS[supplier].delivery_days, bal, pending)
        ELSE [reply |-> SUPPLIERS[supplier].personality,
              balance |-> bal, pending_orders |-> pending]

\* the emails of the agent: orders to the two reliable suppliers
FloatMails ==
    { [to |-> "QuickStock", body |-> <<W("order"), N(286), W("chips"), N(1221), W("candy")>>],
      [to |-> "QuickStock", body |-> <<W("order"), N(18), W("sodas"), N(1072), W("chips")>>],
      [to |-> "QuickStock", body |-> <<W("order"), N(702), W("sodas"), N(8), W("chips")>>],
      [to |-> "QuickStock", body |-> <<W("order"), N(50), W("sodas")>>],
      [to |-> "QuickStock", body |-> <<W("order"), N(200), W("chips"), N(1000), W("candy")>>],
      [to |-> "QuickStock", body |-> <<W("order"), N(100), W("sodas"), N(1300), W("candy")>>],
      [to |-> "QuickStock", body |-> <<W("order"), N(1100), W("chips")>>],
      [to |-> "QuickStock", body |-> <<W("order"), N(1101), W("chips")>>],
      [to |-> "sales@bulkbarn.com", body |-> <<W("Order"), N(990), W("sodas")>>],
      [to |-> "sales@bulkbarn.com", body |-> <<W("Order"), N(920), W("sodas")>>],
      [to |-> "QuickStock", body |-> <<W("hello"), N(50), W("soda")>>] }

\* GameState() with the balance 500.0, before the fee of day 1
FloatInit ==
    /\ pc = "fee"
    /\ day = 1
    /\ balance = FloatOfCents(InitialBalance)
    /\ stock = InitialStock
    /\ price = InitialPrice
    /\ pending_orders = <<>>
    /\ sales_today = [p \in {} |-> 0]
    /\ emails = <<>>
    /\ agent_notes = ""
    /\ simulation_running = TRUE
    /\ other_run = "running"
    /\ bankrupt = FALSE
    /\ calls = 0
    /\ writes = 0
    /\ book = <<>>
    /\ last = [op |-> "init"]
    /\ websocket_clients = <<>>
    /\ conn = [o \in Observers |-> "new"]
    /\ unread = [o \in Observers |-> 0]
    /\ got = [o \in Observers |-> 0]
    /\ emitted = 0
    /\ bc = NoBroadcast
    /\ random_inst = 0
    /\ own_inst = 0

\* state.balance -= DAILY_FEE, and on to the decision phase: the balance is
\* not negative and nothing is pending
FloatDeductFee ==
    /\ pc = "fee"
    /\ balance' = FloatSub(balance, FloatOfCents(DAILY_FEE))
    /\ pc' = "decide"
    /\ last' = [op |-> "fee"]
    /\ UNCHANGED <<day, stock, price, pending_orders, sales_today, emails, agent_notes,
                   simulation_running, other_run, bankrupt, calls, writes, book>>

\* the send_email block: handle_email(state, args)
FloatSendEmailCall ==
    /\ pc = "decide"
    /\ calls < MaxCalls
    /\ \E m \in FloatMails :
          \E r \in {FloatGenerateSupplierResponse(balance, pending_orders,
                                                  ResolveSupplier(m.to), m.body)} :
              /\ emails' = Append(Append(emails, [direction |-> "out", to |-> m.to,
                                                  body |-> m.body]),
                                  [direction |-> "in", from |-> ResolveSupplier(m.to),
                                   body |-> r.reply])
              /\ balance' = r.balance
              /\ pending_orders' = r.pending_orders
              /\ last' = [op |-> "tool", name |-> "send_email",
                          result |-> EmailResult(m.to)]
    /\ calls' = calls + 1
    /\ UNCHANGED <<pc, day, stock, price, sales_today, agent_notes, simulation_running,
                   other_run, bankrupt, writes, book>>

\* the for loop over response.content ends; the demand phase is next
FloatEndDecision ==
    /\ pc = "decide"
    /\ pc' = "demand"
    /\ last' = [op |-> "end_decision"]
    /\ calls' = 0
    /\ UNCHANGED <<gameState, simulation_running, other_run, bankrupt, writes, book>>

FloatNext ==
    \/ FloatDeductFee /\ Quiet
    \/ FloatSendEmailCall /\ Quiet
    \/ FloatEndDecision /\ Quiet

FloatSpec == FloatInit /\ [][FloatNext]_vars

(* C34: the tool calls of a decision phase are applied one after another,
   each order being checked against the balance the earlier ones left: the
   balance is >= 0 after every confirmed order, so the orders confirmed in a
   phase never cost more than the balance at its start, and an order whose
   total equals the balance exactly is accepted and leaves the balance 0. *)
C34_Step ==
    EmailStep =>
        /\ Replied("confirmed") => ~FloatNegative(balance')
        /\ (OrderAttempt /\ balance = FloatOfCents(OrderTotal(SentSupplier, SentQuantities)))
              => /\ Replied("confirmed")
                 /\ balance' = FloatZero

C34_SequentialAffordability == [][C34_Step]_vars

(* C7: when an order is confirmed the balance decreases at that moment by
   exactly the sum of quantity x unit cost over the extracted products; here
   for the amounts as the code computes them. *)
C7_FloatStep ==
    (EmailStep /\ Replied("confirmed")) =>
        balance' = FloatSub(balance,
                            FloatOfCents(OrderTotal(SentSupplier, SentQuantities)))

C7_ExactPayment == [][C7_FloatStep]_vars

(* C10: no demand phase starts with a negative balance; here for the balance
   as the code computes it during the decision phase before. *)
C10_DemandStartsSolvent == pc = "demand" => ~FloatNegative(balance)

----------------------------------------------------------------------------
(* The arena controller: run_simulation_loop of vending_arena/server.py.  It
   calls process_pending_orders, handle_tool_call and simulate_customers of
   the arena's own simulation module on a GameState of that module; these
   are the operations of the Ledger, the Negotiation Interpreter and the
   Demand Engine, with amounts as exact decimals. *)

\* state = GameState(); simulation_running = True
ArenaInit == Init

\* the arena loop test that charges the daily fee of the vending controller
ArenaLoopTest_WithFee ==
    /\ pc = "loop"
    /\ pc' = IF day <= max_days /\ simulation_running THEN "deliver" ELSE "complete"
    /\ balance' = IF day <= max_days /\ simulation_running
                  THEN balance - DAILY_FEE ELSE balance
    /\ last' = [op |-> "loop_test"]
    /\ UNCHANGED <<day, stock, price, pending_orders, sales_today, emails, agent_notes,
                   simulation_running, other_run, bankrupt, calls, writes, book>>

\* while state.day <= state.max_days and simulation_running: the body starts
\* with the deliveries
ArenaLoopTest ==
    /\ pc = "loop"
    /\ pc' = IF day <= max_days /\ simulation_running THEN "deliver" ELSE "complete"
    /\ last' = [op |-> "loop_test"]
    /\ UNCHANGED <<gameState, simulation_running, other_run, bankrupt, calls, writes, book>>

ArenaNext ==
    \/ ArenaLoopTest /\ Quiet
    \/ DeliverOrders /\ Quiet
    \/ SendEmailCall /\ Quiet
    \/ SetPriceCall /\ Quiet
    \/ TakeNotesCall /\ Quiet
    \/ ReadOnlyCall /\ Quiet
    \/ EndDecision /\ Quiet
    \/ AgentRaises /\ Quiet
    \/ Customers /\ Quiet
    \/ Report /\ Quiet
    \/ Complete /\ Quiet
    \/ OtherRunEnds /\ Quiet

ArenaSpec == ArenaInit /\ [][ArenaNext]_vars

\* the phases of a day of the vending controller, fee and bankruptcy test
\* left out, and what may follow each
ArenaCycle ==
    [loop     |-> {"deliver", "complete"},
     deliver  |-> {"decide"},
     decide   |-> {"decide", "demand"},
     demand   |-> {"report", "crashed"},
     report   |-> {"loop"},
     complete |-> {"done"}]

NonNegativePrices == \A p \in DOMAIN price : price[p] >= 0

(* C38: the arena controller runs the delivery, decision, demand, report
   cycle of the vending controller, deducts no daily fee and has no
   bankruptcy transition: with non-negative prices its balance is >= 0 in
   every reachable state, and a run of it that is not stopped ends only at
   day = max_days + 1. *)
C38_Step ==
    /\ pc' # pc => (pc \in DOMAIN ArenaCycle /\ pc' \in ArenaCycle[pc])
    /\ pc \notin {"decide", "demand"} => balance' = balance
    /\ last'.op \notin {"fee", "check"}
    /\ (NonNegativePrices /\ balance >= 0) => balance' >= 0
    /\ (NonNegativePrices /\ pc = "demand" /\ pc' # pc) => pc' = "report"

C38_State ==
    /\ ~bankrupt
    /\ pc \in {"complete", "done"} => (day = max_days + 1 \/ ~simulation_running)

C38_ArenaCycle == []C38_State /\ [][C38_Step]_vars

\* a run that was not stopped has ended after max_days days, with orders
\* placed and a balance no fee has lowered
C38_Witness ==
    /\ pc = "done"
    /\ day = max_days + 1
    /\ other_run = "running"
    /\ NonNegativePrices
    /\ Len(book) > 0
    /\ balance >= InitialBalance

====
